---- MODULE Spec2Model ----
(***************************************************************************)
(* Voice-command intent resolution and task mutation of the voice todo     *)
(* assistant: VoiceQueryController (src/src/handler/voiceQueryController.ts)*)
(* and GeminiService.parseVoiceCommand (src/unnamed/part_004), with the     *)
(* transcription of ElevenLabsService (src/unnamed/part_003) and the       *)
(* WebSocket route of src/src/websockets/web_socket.ts; the voice sessions  *)
(* of src/src/websockets/webSocketVoice.ts and src/src/handler/            *)
(* simpleNotion.ts; the recording handlers EnhancedVoiceWebSocketHandler   *)
(* (src/unnamed/part_008) and VoiceWebSocketHandler (src/unnamed/part_010);*)
(* EnhancedWebSocketManager (src/unnamed/part_009); and TaskService        *)
(* (src/src/services/mongoTaskService.ts).                                 *)
(*                                                                         *)
(* Text is modelled character by character: a JavaScript string is a       *)
(* sequence of one-character strings, so includes, startsWith, trim,       *)
(* toLowerCase and the regular expressions of the code are computed, not   *)
(* assumed.  The alphabet has no line terminator, so "." matches every     *)
(* character and "$" is the end of the string.                             *)
(***************************************************************************)
EXTENDS Integers, Sequences, FiniteSets, TLC

VARIABLES
  store,          \* pages of the "Daily Tasks" database, in default query order
  databases,      \* ids of the databases the search for 'Daily Tasks' returns
  gtdDatabaseId,  \* VoiceQueryController.gtdDatabaseId (0 is null)
  pc,             \* position of the command inside processVoiceCommand
  commandText,    \* the command's text
  intent,         \* the VoiceIntent of the command
  geminiCalled,   \* whether geminiService.parseVoiceCommand ran for the command
  geminiReply,    \* what the generative model gave for the command
  storeCalls,     \* kinds of Notion calls made while handling the command
  result,         \* the handler's result object
  response,       \* what processVoiceCommand returned or sent
  nCommands,      \* commands received so far
  storeBefore,    \* the store when the command was received
  lastCreated,    \* id and text of the task the latest successful create stored
  synthesis,      \* whether an audio reply was asked for and how synthesis ended
  transport,      \* the route the controller instance serves: "http" or "ws"
  socketMessages, \* types of the messages sent on the socket for the command
  ensureCalls,    \* concurrent calls of ensureGTDDatabase, one record per caller
  inFlight,       \* concurrent commands inside processVoiceCommand, one record each
  activeSessions, \* webSocketVoice.ts: the map activeSessions, session id to session
  sessions,       \* simpleNotion.ts: the map sessions, session id to session
  sessionObjects, \* the session objects the two maps and the handlers refer to
  wsConnections,  \* the sockets of the two voice routes and their running handlers
  clock,          \* Date.now() as the voice routes read it
  flushed,        \* the audio sent through the pipeline so far, in order
  handler,        \* the fields of one recording handler object
  client,         \* its socket, its timer callback and what the client was sent
  manager,        \* the fields of EnhancedWebSocketManager
  managerSockets, \* the sockets handed to the manager
  taskDocs,       \* the Task collection of TaskService
  calendarDay,    \* the calendar day of new Date()
  rollover        \* the latest call of a TaskService method and what it returned

\* the state of the task store and the cached database id
storeVars == << store, databases, gtdDatabaseId >>

\* the state of one command inside VoiceQueryController
commandVars == << pc, commandText, intent, geminiCalled, geminiReply, storeCalls,
                  result, response, nCommands, storeBefore, lastCreated, synthesis,
                  transport, socketMessages, ensureCalls >>

\* the state of the voice session routes
sessionVars == << activeSessions, sessions, sessionObjects, wsConnections, clock,
                  flushed >>

\* the state of a recording handler
recorderVars == << handler, client >>

\* the state of the connection manager
managerVars == << manager, managerSockets >>

\* the state of TaskService
taskVars == << taskDocs, calendarDay, rollover >>

\* the state outside VoiceQueryController
otherVars == << inFlight, sessionVars, recorderVars, managerVars, taskVars >>

vars == << storeVars, commandVars, otherVars >>

\* no command is inside processVoiceCommand concurrently
NoRace == inFlight = << >>

\* the voice session routes are not in use
NoSessions ==
  /\ activeSessions = << >> /\ sessions = << >> /\ sessionObjects = << >>
  /\ wsConnections = << >> /\ clock = 0 /\ flushed = << >>

\* no recording handler is in use
NoRecorder == handler = << >> /\ client = << >>

\* the connection manager is not in use
NoManager == manager = << >> /\ managerSockets = << >>

\* TaskService is not in use
NoTasks == taskDocs = << >> /\ calendarDay = 0 /\ rollover = << >>

\* the components outside VoiceQueryController, not in use
NoOtherComponents == NoRace /\ NoSessions /\ NoRecorder /\ NoManager /\ NoTasks

(***************************************************************************)
(* Bounds                                                                  *)
(***************************************************************************)
\* pieces of the vocabulary concatenated into one classified text
MaxPieces == 3
\* commands of one run of the controller
MaxCommands == 3
\* calls of ensureGTDDatabase each concurrent caller makes
MaxEnsureCalls == 2
\* audio chunks a client sends on one voice connection
MaxChunks == 2
\* milliseconds the clock of the voice routes advances
MaxClock == 1
\* times buffered audio is sent through the pipeline
MaxFlushes == 2
\* audio chunks a client sends to one recording handler
MaxAudioChunks == 10
\* start_recording messages a client sends to one recording handler
MaxStarts == 2
\* connections the connection manager accepts
MaxConnections == 3
\* tasks TaskService creates
MaxTasks == 2
\* calendar days TaskService runs through
MaxDays == 2
\* calls of rolloverToToday
MaxRollovers == 2

(***************************************************************************)
(* Strings                                                                 *)
(***************************************************************************)
\* the value of an absent (undefined) field
Undef == << "undefined" >>

\* JavaScript truthiness of an optional string field
Truthy(v) == v # Undef /\ v # << >>

UpperChars == << "A","B","C","D","E","F","G","H","I","J","K","L","M",
                 "N","O","P","Q","R","S","T","U","V","W","X","Y","Z" >>

LowerChars == << "a","b","c","d","e","f","g","h","i","j","k","l","m",
                 "n","o","p","q","r","s","t","u","v","w","x","y","z" >>

\* String.prototype.toLowerCase
toLowerCase(s) ==
  [ i \in 1..Len(s) |->
      IF \E k \in 1..26 : UpperChars[k] = s[i]
        THEN LowerChars[CHOOSE k \in 1..26 : UpperChars[k] = s[i]]
        ELSE s[i] ]

\* the characters \s matches and trim removes
IsSpace(c) == c \in { " ", "\t" }

\* String.prototype.trim
trim(s) ==
  IF \A i \in 1..Len(s) : IsSpace(s[i]) THEN << >>
  ELSE LET a == CHOOSE i \in 1..Len(s) :
                  ~IsSpace(s[i]) /\ \A j \in 1..(i-1) : IsSpace(s[j])
           b == CHOOSE i \in 1..Len(s) :
                  ~IsSpace(s[i]) /\ \A j \in (i+1)..Len(s) : IsSpace(s[j])
       IN SubSeq(s, a, b)

\* sub occurs in s at index i
OccursAt(s, i, sub) ==
  /\ i >= 1
  /\ i + Len(sub) - 1 <= Len(s)
  /\ \/ Len(sub) = 0
     \/ s[i] = sub[1] /\ SubSeq(s, i, i + Len(sub) - 1) = sub

\* String.prototype.includes
includes(s, sub) == \E i \in 1..(Len(s) + 1) : OccursAt(s, i, sub)

\* String.prototype.startsWith
startsWith(s, sub) == OccursAt(s, 1, sub)

\* String.prototype.split(' ')
RECURSIVE split(_)
split(s) ==
  IF \A i \in 1..Len(s) : s[i] # " " THEN << s >>
  ELSE LET k == CHOOSE i \in 1..Len(s) : s[i] = " " /\ \A j \in 1..(i-1) : s[j] # " "
       IN << SubSeq(s, 1, k - 1) >> \o split(SubSeq(s, k + 1, Len(s)))

(***************************************************************************)
(* Regular expressions of the code.  All carry the i flag: a literal is    *)
(* looked up in ls, the lower-case form of the text s, and the groups are  *)
(* cut out of s (toLowerCase keeps every index).                           *)
(***************************************************************************)
\* the least element of a non-empty set of integers
Min(S) == CHOOSE x \in S : \A y \in S : x <= y

\* the greatest element of a non-empty set of integers
Max(S) == CHOOSE x \in S : \A y \in S : x >= y

\* the indices at which the literal lit occurs in ls
Occurrences(ls, lit) == { i \in 1..Len(ls) : OccursAt(ls, i, lit) }

\* index of the first non-space character at or after i (Len(s)+1 if none)
SkipSpaces(s, i) ==
  IF \A j \in i..Len(s) : IsSpace(s[j]) THEN Len(s) + 1
  ELSE CHOOSE j \in i..Len(s) : ~IsSpace(s[j]) /\ \A k \in i..(j-1) : IsSpace(s[k])

\* "\s+(.+)" at index i up to the end of the string: the greedy \s+ takes the
\* whole run of spaces, and gives one back when nothing else is left for (.+)
TailMatches(s, i) == i <= Len(s) /\ IsSpace(s[i]) /\ i + 1 <= Len(s)

TailGroup(s, i) ==
  IF SkipSpaces(s, i) <= Len(s) THEN SubSeq(s, SkipSpaces(s, i), Len(s))
  ELSE << s[Len(s)] >>

\* w1\s+w2\s+...wn at index i: the index after wn, or 0 when there is no match
RECURSIVE WordsEnd(_, _, _)
WordsEnd(ls, i, ws) ==
  IF ~OccursAt(ls, i, Head(ws)) THEN 0
  ELSE IF Len(ws) = 1 THEN i + Len(Head(ws))
  ELSE LET e == i + Len(Head(ws))
       IN IF e <= Len(ls) /\ IsSpace(ls[e])
            THEN WordsEnd(ls, SkipSpaces(ls, e), Tail(ws))
            ELSE 0

\* /w1\s+...wn\s+(.+)/i : group 1 of the leftmost match, Undef when none
MatchWordsRest(s, ls, ws) ==
  LET at == { i \in Occurrences(ls, Head(ws)) :
                WordsEnd(ls, i, ws) # 0 /\ TailMatches(s, WordsEnd(ls, i, ws)) }
  IN IF at # { } THEN TailGroup(s, WordsEnd(ls, Min(at), ws)) ELSE Undef

\* /(?:a1|a2|...)\s+(.+)/i : group 1 of the leftmost match, Undef when none
MatchAltRest(s, ls, alts) ==
  LET ok(i, a) == OccursAt(ls, i, a) /\ TailMatches(s, i + Len(a))
      at == { i \in 1..Len(s) : \E a \in alts : ok(i, a) }
  IN IF at # { }
       THEN TailGroup(s, Min(at) + Len(CHOOSE a \in alts : ok(Min(at), a)))
       ELSE Undef

\* /^(a1|a2|...)\s+(.+)$/i with the alternatives tried in order: group 2, Undef when none
MatchAnchoredRest(s, ls, alts) ==
  LET at == { k \in 1..Len(alts) :
                OccursAt(ls, 1, alts[k]) /\ TailMatches(s, 1 + Len(alts[k])) }
  IN IF at # { } THEN TailGroup(s, 1 + Len(alts[Min(at)])) ELSE Undef

\* every string literal of the modelled code, character by character
Lit ==
  [
    complete |-> <<"c","o","m","p","l","e","t","e">>,
    finish |-> <<"f","i","n","i","s","h">>,
    done |-> <<"d","o","n","e">>,
    mark_as_done |-> <<"m","a","r","k"," ","a","s"," ","d","o","n","e">>,
    check_off |-> <<"c","h","e","c","k"," ","o","f","f">>,
    tick_off |-> <<"t","i","c","k"," ","o","f","f">>,
    first |-> <<"f","i","r","s","t">>,
    last |-> <<"l","a","s","t">>,
    second |-> <<"s","e","c","o","n","d">>,
    third |-> <<"t","h","i","r","d">>,
    with |-> <<"w","i","t","h">>,
    mark |-> <<"m","a","r","k">>,
    as |-> <<"a","s">>,
    check |-> <<"c","h","e","c","k">>,
    off |-> <<"o","f","f">>,
    delete |-> <<"d","e","l","e","t","e">>,
    remove |-> <<"r","e","m","o","v","e">>,
    cancel |-> <<"c","a","n","c","e","l">>,
    drop |-> <<"d","r","o","p">>,
    all |-> <<"a","l","l">>,
    update |-> <<"u","p","d","a","t","e">>,
    change |-> <<"c","h","a","n","g","e">>,
    modify |-> <<"m","o","d","i","f","y">>,
    edit |-> <<"e","d","i","t">>,
    sp_to_sp |-> <<" ","t","o"," ">>,
    to |-> <<"t","o">>,
    show |-> <<"s","h","o","w">>,
    list |-> <<"l","i","s","t">>,
    what |-> <<"w","h","a","t">>,
    display |-> <<"d","i","s","p","l","a","y">>,
    my_tasks |-> <<"m","y"," ","t","a","s","k","s">>,
    my_todos |-> <<"m","y"," ","t","o","d","o","s">>,
    pending |-> <<"p","e","n","d","i","n","g">>,
    tasks |-> <<"t","a","s","k","s">>,
    todos |-> <<"t","o","d","o","s">>,
    bought |-> <<"b","o","u","g","h","t">>,
    purchased |-> <<"p","u","r","c","h","a","s","e","d">>,
    got |-> <<"g","o","t">>,
    checked |-> <<"c","h","e","c","k","e","d">>,
    reviewed |-> <<"r","e","v","i","e","w","e","d">>,
    read |-> <<"r","e","a","d">>,
    finished |-> <<"f","i","n","i","s","h","e","d">>,
    completed |-> <<"c","o","m","p","l","e","t","e","d">>,
    did |-> <<"d","i","d">>,
    sent |-> <<"s","e","n","t">>,
    replied_to |-> <<"r","e","p","l","i","e","d"," ","t","o">>,
    responded_to |-> <<"r","e","s","p","o","n","d","e","d"," ","t","o">>,
    add |-> <<"a","d","d">>,
    create |-> <<"c","r","e","a","t","e">>,
    new |-> <<"n","e","w">>,
    make |-> <<"m","a","k","e">>,
    remember |-> <<"r","e","m","e","m","b","e","r">>,
    remind |-> <<"r","e","m","i","n","d">>,
    urgent |-> <<"u","r","g","e","n","t">>,
    high_priority |-> <<"h","i","g","h"," ","p","r","i","o","r","i","t","y">>,
    important |-> <<"i","m","p","o","r","t","a","n","t">>,
    low_priority |-> <<"l","o","w"," ","p","r","i","o","r","i","t","y">>,
    not_urgent |-> <<"n","o","t"," ","u","r","g","e","n","t">>,
    work |-> <<"w","o","r","k">>,
    office |-> <<"o","f","f","i","c","e">>,
    meeting |-> <<"m","e","e","t","i","n","g">>,
    personal |-> <<"p","e","r","s","o","n","a","l">>,
    home |-> <<"h","o","m","e">>,
    family |-> <<"f","a","m","i","l","y">>,
    buy |-> <<"b","u","y">>,
    shop |-> <<"s","h","o","p">>,
    purchase |-> <<"p","u","r","c","h","a","s","e">>,
    email |-> <<"e","m","a","i","l">>,
    reply |-> <<"r","e","p","l","y">>,
    send |-> <<"s","e","n","d">>,
    two |-> <<"2">>,
    three |-> <<"3">>
  ]

\* /mark\s+(.+)\s+as\s+done/i : group 1 of the leftmost match (both \s+ and
\* (.+) greedy), Undef when none
MatchMarkAsDone(s, ls) ==
  LET n == Len(s)
      \* group 1 may start at p: only spaces lie between "mark" and p
      starts(i) == { p \in (i + 5)..n : \A j \in (i + 4)..(p - 1) : IsSpace(s[j]) }
      \* group 1 may end at q: \s+as\s+done follows
      ends(p) == { q \in p..(n - 1) :
                     /\ IsSpace(s[q + 1])
                     /\ WordsEnd(ls, SkipSpaces(s, q + 1), << Lit.as, Lit.done >>) # 0 }
      at == { i \in Occurrences(ls, Lit.mark) : \E p \in starts(i) : ends(p) # { } }
  IN IF at # { }
       THEN LET p == Max({ p \in starts(Min(at)) : ends(p) # { } })
            IN SubSeq(s, p, Max(ends(p)))
       ELSE Undef

\* /(?:v1|v2|...)\s+(.+?)\s+to\s+(.+)/i : << group 1, group 2 >> of the leftmost
\* match (\s+ greedy, (.+?) lazy), Undef when none
MatchVerbTo(s, ls, verbs) ==
  LET n == Len(s)
      \* index after the verb that occurs at i
      after(i) == i + Len(CHOOSE v \in verbs : OccursAt(ls, i, v))
      starts(i) == { p \in (after(i) + 1)..n : \A j \in after(i)..(p - 1) : IsSpace(s[j]) }
      ends(p) == { q \in p..(n - 1) :
                     /\ IsSpace(s[q + 1])
                     /\ OccursAt(ls, SkipSpaces(s, q + 1), Lit.to)
                     /\ TailMatches(s, SkipSpaces(s, q + 1) + 2) }
      at == { i \in UNION { Occurrences(ls, v) : v \in verbs } :
                \E p \in starts(i) : ends(p) # { } }
  IN IF at # { }
       THEN LET p == Max({ p \in starts(Min(at)) : ends(p) # { } })
                q == Min(ends(p))
            IN << SubSeq(s, p, q), TailGroup(s, SkipSpaces(s, q + 1) + 2) >>
       ELSE Undef

\* text.replace(/^(a1|a2|...)\s+/i, '')
StripLeading(s, alts) ==
  LET ls == toLowerCase(s)
      at == { k \in 1..Len(alts) :
                /\ OccursAt(ls, 1, alts[k])
                /\ 1 + Len(alts[k]) <= Len(s)
                /\ IsSpace(s[1 + Len(alts[k])]) }
  IN IF at # { }
       THEN SubSeq(s, SkipSpaces(s, 1 + Len(alts[Min(at)])), Len(s))
       ELSE s

(***************************************************************************)
(* Tier 1: VoiceQueryController.detectIntentFromText                       *)
(***************************************************************************)
\* a VoiceIntent; confidence is counted in tenths (9 is 0.9)
Intent(action, todoText, targetTodo, newText, confidence) ==
  [ action |-> action, todoText |-> todoText, targetTodo |-> targetTodo,
    newText |-> newText, confidence |-> confidence ]

\* the trigger of the COMPLETE block
IsCompleteTrigger(lowerText) ==
  \/ includes(lowerText, Lit.complete)
  \/ includes(lowerText, Lit.finish)
  \/ includes(lowerText, Lit.done)
  \/ includes(lowerText, Lit.mark_as_done)
  \/ includes(lowerText, Lit.check_off)
  \/ includes(lowerText, Lit.tick_off)

\* group 1 of the first COMPLETE pattern that matches, Undef when none does
CompleteMatch(s, ls) ==
  IF MatchWordsRest(s, ls, << Lit.complete >>) # Undef
    THEN MatchWordsRest(s, ls, << Lit.complete >>)
  ELSE IF MatchWordsRest(s, ls, << Lit.finish >>) # Undef
    THEN MatchWordsRest(s, ls, << Lit.finish >>)
  ELSE IF MatchWordsRest(s, ls, << Lit.done, Lit.with >>) # Undef
    THEN MatchWordsRest(s, ls, << Lit.done, Lit.with >>)
  ELSE IF MatchMarkAsDone(s, ls) # Undef
    THEN MatchMarkAsDone(s, ls)
  ELSE MatchWordsRest(s, ls, << Lit.check, Lit.off >>)

\* the target the COMPLETE block extracts
ExtractCompleteTarget(text, lowerText) ==
  IF includes(lowerText, Lit.first) THEN Lit.first
  ELSE IF includes(lowerText, Lit.last) THEN Lit.last
  ELSE IF includes(lowerText, Lit.second) THEN Lit.two
  ELSE IF includes(lowerText, Lit.third) THEN Lit.three
  ELSE LET m == CompleteMatch(text, toLowerCase(text))
       IN IF m = Undef THEN Undef ELSE trim(m)

\* the trigger of the DELETE block
IsDeleteTrigger(lowerText) ==
  \/ includes(lowerText, Lit.delete)
  \/ includes(lowerText, Lit.remove)
  \/ includes(lowerText, Lit.cancel)
  \/ includes(lowerText, Lit.drop)

\* group 1 of the first DELETE pattern that matches, Undef when none does
DeleteMatch(s, ls) ==
  IF MatchWordsRest(s, ls, << Lit.delete >>) # Undef
    THEN MatchWordsRest(s, ls, << Lit.delete >>)
  ELSE IF MatchWordsRest(s, ls, << Lit.remove >>) # Undef
    THEN MatchWordsRest(s, ls, << Lit.remove >>)
  ELSE IF MatchWordsRest(s, ls, << Lit.cancel >>) # Undef
    THEN MatchWordsRest(s, ls, << Lit.cancel >>)
  ELSE MatchWordsRest(s, ls, << Lit.drop >>)

\* the target the DELETE block extracts
ExtractDeleteTarget(text, lowerText) ==
  IF includes(lowerText, Lit.first) THEN Lit.first
  ELSE IF includes(lowerText, Lit.last) THEN Lit.last
  ELSE LET m == DeleteMatch(text, toLowerCase(text))
       IN IF m = Undef THEN Undef ELSE trim(m)

\* the trigger of the UPDATE block
IsUpdateTrigger(lowerText) ==
  \/ includes(lowerText, Lit.update)
  \/ includes(lowerText, Lit.change)
  \/ includes(lowerText, Lit.modify)
  \/ includes(lowerText, Lit.edit)
  \/ includes(lowerText, Lit.sp_to_sp)

\* the groups of the first UPDATE pattern that matches, Undef when none does
UpdateMatch(s, ls) ==
  IF MatchVerbTo(s, ls, { Lit.update }) # Undef THEN MatchVerbTo(s, ls, { Lit.update })
  ELSE IF MatchVerbTo(s, ls, { Lit.change }) # Undef THEN MatchVerbTo(s, ls, { Lit.change })
  ELSE IF MatchVerbTo(s, ls, { Lit.modify }) # Undef THEN MatchVerbTo(s, ls, { Lit.modify })
  ELSE MatchVerbTo(s, ls, { Lit.edit })

\* the trigger of the LIST block
IsListTrigger(lowerText) ==
  \/ includes(lowerText, Lit.show)
  \/ includes(lowerText, Lit.list)
  \/ includes(lowerText, Lit.what)
  \/ includes(lowerText, Lit.display)
  \/ includes(lowerText, Lit.my_tasks)
  \/ includes(lowerText, Lit.my_todos)
  \/ includes(lowerText, Lit.pending)
  \/ lowerText = Lit.tasks
  \/ lowerText = Lit.todos

\* group 2 of the first past-tense completion pattern that matches, Undef when none does
PastTenseMatch(s) ==
  LET ls == toLowerCase(s)
      m1 == MatchAnchoredRest(s, ls, << Lit.bought, Lit.purchased, Lit.got >>)
      m2 == MatchAnchoredRest(s, ls, << Lit.checked, Lit.reviewed, Lit.read >>)
      m3 == MatchAnchoredRest(s, ls, << Lit.finished, Lit.completed, Lit.did >>)
      m4 == MatchAnchoredRest(s, ls, << Lit.sent, Lit.replied_to, Lit.responded_to >>)
  IN IF m1 # Undef THEN m1 ELSE IF m2 # Undef THEN m2 ELSE IF m3 # Undef THEN m3 ELSE m4

\* the trigger of the CREATE block
IsCreateTrigger(lowerText) ==
  \/ startsWith(lowerText, Lit.add)
  \/ startsWith(lowerText, Lit.create)
  \/ startsWith(lowerText, Lit.new)
  \/ startsWith(lowerText, Lit.make)

\* the CREATE pattern with the alternative "new" left out
CreateMatch_WithoutNew(s) ==
  MatchAltRest(s, toLowerCase(s), { Lit.add, Lit.create, Lit.make })

\* group 1 of the CREATE pattern, Undef when it does not match
CreateMatch(s) ==
  MatchAltRest(s, toLowerCase(s), { Lit.add, Lit.create, Lit.new, Lit.make })

\* the default-to-CREATE test with the boundary moved by one
IsLongEnough_AtLeastTwo(lowerText) == Len(lowerText) >= 2

\* "Default to CREATE if text is long enough"
IsLongEnough(lowerText) == Len(lowerText) > 2

detectIntentFromText(text) ==
  LET lowerText == trim(toLowerCase(text))
  IN IF IsCompleteTrigger(lowerText) THEN
       LET targetTodo == ExtractCompleteTarget(text, lowerText)
       IN Intent("complete", Undef, IF Truthy(targetTodo) THEN targetTodo ELSE Undef, Undef, 9)
     ELSE IF IsDeleteTrigger(lowerText) THEN
       LET targetTodo == ExtractDeleteTarget(text, lowerText)
       IN Intent("delete", Undef, IF Truthy(targetTodo) THEN targetTodo ELSE Undef, Undef, 9)
     ELSE IF IsUpdateTrigger(lowerText) THEN
       LET m == UpdateMatch(text, toLowerCase(text))
       IN IF m # Undef
            THEN Intent("update", Undef, trim(m[1]), trim(m[2]), 9)
            ELSE Intent("update", Undef, Undef, Undef, 3)
     ELSE IF IsListTrigger(lowerText) THEN
       Intent("list", Undef, Undef, Undef, 9)
     ELSE LET past == PastTenseMatch(text)
              made == CreateMatch(text)
          IN IF past # Undef THEN
               Intent("complete", Undef, trim(past), Undef, 8)
             ELSE IF IsCreateTrigger(lowerText) /\ made # Undef THEN
               Intent("create", trim(made), Undef, Undef, 9)
             ELSE IF IsLongEnough(lowerText) THEN
               Intent("create", text, Undef, Undef, 6)
             ELSE
               Intent("unclear", Undef, Undef, Undef, 1)

(***************************************************************************)
(* Tier 2: GeminiService.parseVoiceCommand                                 *)
(***************************************************************************)
\* the keyword heuristic of the catch block
FallbackIntent(text) ==
  LET lowerText == toLowerCase(text)
      um == MatchVerbTo(text, lowerText, { Lit.update, Lit.change })
  IN IF includes(lowerText, Lit.add) \/ includes(lowerText, Lit.create) THEN
       Intent("create", trim(StripLeading(text, << Lit.add, Lit.create, Lit.make >>)),
              Undef, Undef, 8)
     ELSE IF \/ includes(lowerText, Lit.complete)
             \/ includes(lowerText, Lit.done)
             \/ includes(lowerText, Lit.check) THEN
       Intent("complete", Undef,
              trim(StripLeading(text, << Lit.complete, Lit.done, Lit.check, Lit.mark >>)),
              Undef, 7)
     ELSE IF (includes(lowerText, Lit.update) \/ includes(lowerText, Lit.change))
             /\ um # Undef THEN
       Intent("update", Undef, trim(um[1]), trim(um[2]), 7)
     ELSE IF includes(lowerText, Lit.delete) \/ includes(lowerText, Lit.remove) THEN
       Intent("delete", Undef,
              trim(StripLeading(text, << Lit.delete, Lit.remove >>)), Undef, 7)
     ELSE IF includes(lowerText, Lit.show) \/ includes(lowerText, Lit.list) THEN
       Intent("list", Undef, Undef, Undef, 9)
     ELSE
       Intent("unclear", Undef, Undef, Undef, 3)

\* what the model call gives: "error" when the call throws or its text holds no
\* parseable JSON object, else the parsed object (a record of the keys it holds)
GeminiError == [ kind |-> "error" ]
GeminiJson(obj) == [ kind |-> "json", json |-> obj ]

\* the object parseVoiceCommand returns for a reply of the model
parseVoiceCommand(text, reply) ==
  IF reply.kind = "error" THEN FallbackIntent(text)
  ELSE LET json == reply.json
           defaults == [ todoText |-> Undef, targetTodo |-> Undef, newText |-> Undef ]
       IN [ f \in DOMAIN defaults \cup DOMAIN json |->
              IF f \in DOMAIN json THEN json[f] ELSE defaults[f] ]

\* { ...intent, ...omitUndefined(geminiIntent) }
MergeIntent(old, g) ==
  LET text(f) == IF f \in DOMAIN g /\ g[f] # Undef THEN g[f] ELSE old[f]
  IN [ action     |-> IF "action" \in DOMAIN g THEN g.action ELSE old.action,
       todoText   |-> text("todoText"),
       targetTodo |-> text("targetTodo"),
       newText    |-> text("newText"),
       confidence |-> IF "confidence" \in DOMAIN g THEN g.confidence ELSE old.confidence ]

(***************************************************************************)
(* The task store: pages of a Notion database                              *)
(***************************************************************************)
Task(id, db, title, status, priority, category, date) ==
  [ id |-> id, db |-> db, title |-> title, status |-> status, priority |-> priority,
    category |-> category, date |-> date, archived |-> FALSE ]

\* extractPriority
extractPriority(text) ==
  LET lowerText == toLowerCase(text)
  IN IF \/ includes(lowerText, Lit.urgent)
        \/ includes(lowerText, Lit.high_priority)
        \/ includes(lowerText, Lit.important) THEN "High"
     ELSE IF includes(lowerText, Lit.low_priority) \/ includes(lowerText, Lit.not_urgent)
       THEN "Low"
     ELSE "Medium"

\* extractCategory
extractCategory(text) ==
  LET lowerText == toLowerCase(text)
  IN IF \/ includes(lowerText, Lit.work)
        \/ includes(lowerText, Lit.office)
        \/ includes(lowerText, Lit.meeting) THEN "Work"
     ELSE IF \/ includes(lowerText, Lit.personal)
             \/ includes(lowerText, Lit.home)
             \/ includes(lowerText, Lit.family) THEN "Personal"
     ELSE IF \/ includes(lowerText, Lit.buy)
             \/ includes(lowerText, Lit.shop)
             \/ includes(lowerText, Lit.purchase) THEN "Shopping"
     ELSE IF \/ includes(lowerText, Lit.email)
             \/ includes(lowerText, Lit.reply)
             \/ includes(lowerText, Lit.send) THEN "Email"
     ELSE "Other"

\* notion.databases.query without filter: the pages of the database that are not
\* archived, in the store's default order
QueryAll(pages, db) == SelectSeq(pages, LAMBDA t : t.db = db /\ ~t.archived)

\* sorts: [{ property: 'Priority', direction: 'ascending' }] : the order of the
\* select options High, Medium, Low; pages of equal priority keep their order
SortByPriority(tasks) ==
  SelectSeq(tasks, LAMBDA t : t.priority = "High")
    \o SelectSeq(tasks, LAMBDA t : t.priority = "Medium")
    \o SelectSeq(tasks, LAMBDA t : t.priority = "Low")

\* the positional query of handleCompleteGTD: Status = Todo and Date = today,
\* sorted by Priority ascending
QueryTodoToday(pages, db) ==
  SortByPriority(SelectSeq(QueryAll(pages, db), LAMBDA t : t.status = "Todo" /\ t.date = "today"))

\* the text-search query of handleCompleteGTD: Status = Todo, no sort
QueryTodo(pages, db) == SelectSeq(QueryAll(pages, db), LAMBDA t : t.status = "Todo")

\* filter: { property: 'Task', title: { contains: target } } (Notion compares
\* text without regard to case)
QueryTitleContains(pages, db, target) ==
  SelectSeq(QueryAll(pages, db), LAMBDA t : includes(toLowerCase(t.title), toLowerCase(target)))

\* the query of handleListGTD: Status descending (Todo before Done), then
\* Priority ascending
QuerySorted(pages, db) ==
  SortByPriority(SelectSeq(QueryAll(pages, db), LAMBDA t : t.status = "Todo"))
    \o SortByPriority(SelectSeq(QueryAll(pages, db), LAMBDA t : t.status = "Done"))

Digits == << "0","1","2","3","4","5","6","7","8","9" >>

IsDigit(c) == \E d \in 1..10 : Digits[d] = c

\* !isNaN(Number(s)) for the numerals of the modelled texts: Number gives 0 for
\* a blank string and the decimal value for a string of digits
IsNumber(s) == \A i \in 1..Len(trim(s)) : IsDigit(trim(s)[i])

RECURSIVE DecimalValue(_)
DecimalValue(ds) ==
  IF ds = << >> THEN 0
  ELSE 10 * DecimalValue(SubSeq(ds, 1, Len(ds) - 1))
         + (CHOOSE d \in 1..10 : Digits[d] = ds[Len(ds)]) - 1

\* Number(s)
Number(s) == DecimalValue(trim(s))

\* the task a positional searchText selects among allTasks.results, 0 when none
PositionalTarget(searchText, allTasks) ==
  IF searchText = Lit.first /\ Len(allTasks) > 0 THEN allTasks[1].id
  ELSE IF searchText = Lit.last /\ Len(allTasks) > 0 THEN allTasks[Len(allTasks)].id
  ELSE IF IsNumber(searchText)
            /\ Number(searchText) - 1 >= 0 /\ Number(searchText) - 1 < Len(allTasks)
    THEN allTasks[Number(searchText)].id
  ELSE 0

\* Array.prototype.find over the indices that satisfy the callback: the first
\* of them, 0 when there is none
FindIndex(matching) == IF matching = { } THEN 0 ELSE Min(matching)

\* the lookup with the containment step tried before the exact one
FindBestMatch_ContainsFirst(results, searchText) ==
  LET searchLower == toLowerCase(searchText)
      taskName(t) == toLowerCase(t.title)
      searchWords == split(searchLower)
      contains == FindIndex({ k \in 1..Len(results) :
                    \/ includes(taskName(results[k]), searchLower)
                    \/ includes(searchLower, taskName(results[k])) })
      word == FindIndex({ k \in 1..Len(results) :
                \E w \in 1..Len(searchWords) :
                  includes(taskName(results[k]), searchWords[w]) })
  IN IF contains # 0 THEN results[contains].id
     ELSE IF word # 0 THEN results[word].id
     ELSE 0

\* "Find best matching task": exact title, then containment either way, then
\* a word of the search text occurring in the title; the id found, 0 when none
FindBestMatch(results, searchText) ==
  LET searchLower == toLowerCase(searchText)
      taskName(t) == toLowerCase(t.title)
      searchWords == split(searchLower)
      exact == FindIndex({ k \in 1..Len(results) : taskName(results[k]) = searchLower })
      contains == FindIndex({ k \in 1..Len(results) :
                    \/ includes(taskName(results[k]), searchLower)
                    \/ includes(searchLower, taskName(results[k])) })
      word == FindIndex({ k \in 1..Len(results) :
                \E w \in 1..Len(searchWords) :
                  includes(taskName(results[k]), searchWords[w]) })
  IN IF exact # 0 THEN results[exact].id
     ELSE IF contains # 0 THEN results[contains].id
     ELSE IF word # 0 THEN results[word].id
     ELSE 0

\* the page with the given id
Page(pages, id) == pages[CHOOSE k \in 1..Len(pages) : pages[k].id = id]

\* the update writing the page's title to every page of the store
UpdatePage_EveryPage(page) ==
  [ k \in 1..Len(store) |-> [ store[k] EXCEPT !.title = page.title ] ]

\* notion.pages.update of one page: the store with page put in place of the
\* page that has its id
UpdatePage(page) ==
  [ k \in 1..Len(store) |-> IF store[k].id = page.id THEN page ELSE store[k] ]

(***************************************************************************)
(* Inputs                                                                  *)
(***************************************************************************)
\* pieces the classified texts are concatenated from
Vocabulary ==
  { Lit.add, Lit.new, Lit.bought, Lit.finished, Lit.sent, Lit.list, Lit.drop,
    Lit.first, Lit.sp_to_sp, << " " >>, << "a" >>, << "M","i","l","k" >> }

\* every concatenation of at most n pieces
RECURSIVE Concats(_)
Concats(n) ==
  IF n = 0 THEN { << >> }
  ELSE Concats(n - 1) \cup { a \o p : a \in Concats(n - 1), p \in Vocabulary }

\* the texts the classifier alone is applied to
ClassifyTexts == Concats(MaxPieces)

\* the texts of the commands sent to the controller
CommandTexts ==
  { << >>,
    << "x" >>,
    << "a","d","d"," ","m","i","l","k" >>,
    << "a","d","d"," ","b","u","y"," ","m","i","l","k" >>,
    << "a","d","d"," ","w","a","s","h"," ","c","a","r" >>,
    << "a","d","d"," ","2"," ","e","g","g","s" >>,
    << "b","o","u","g","h","t"," ","m","i","l","k" >>,
    << "m","a","r","k"," ","a","s"," ","d","o","n","e" >>,
    << "c","o","m","p","l","e","t","e"," ","f","i","r","s","t" >>,
    << "c","o","m","p","l","e","t","e"," ","2" >>,
    << "d","e","l","e","t","e" >>,
    << "d","e","l","e","t","e"," ","a","l","l" >>,
    << "d","e","l","e","t","e"," ","f","i","r","s","t" >>,
    << "d","e","l","e","t","e"," ","a" >>,
    << "u","p","d","a","t","e"," ","m","i","l","k"," ","t","o"," ","t","e","a" >>,
    << "s","h","o","w"," ","t","a","s","k","s" >> }

\* the replies of the generative model
GeminiReplies ==
  { GeminiError,
    GeminiJson([ action |-> "unclear", confidence |-> 2 ]),
    GeminiJson([ action |-> "remind", confidence |-> 5 ]),
    GeminiJson([ action |-> "complete", confidence |-> 7 ]),
    GeminiJson([ action |-> "delete", confidence |-> 7 ]),
    GeminiJson([ action |-> "update", targetTodo |-> << "m","i","l","k" >>,
                 confidence |-> 8 ]) }

\* the pages a 'Daily Tasks' database found by the search may already hold
ExistingPages ==
  << Task(1, 1, << "t","e","a" >>, "Todo", "Low", "Shopping", "today"),
     Task(2, 1, << "c","a","l","l" >>, "Todo", "High", "Work", "today") >>

NoIntent == Intent("none", Undef, Undef, Undef, 0)

NoReply == [ kind |-> "none" ]

NoneCreated == [ id |-> 0, text |-> << >> ]

\* a result object that reports success whatever happened
Result_AlwaysSuccess(success, template, arg, taskId) ==
  [ success |-> TRUE, template |-> template, arg |-> arg, taskId |-> taskId,
    count |-> 0, numbered |-> << >> ]

\* a handler's result object
Result(success, template, arg, taskId) ==
  [ success |-> success, template |-> template, arg |-> arg, taskId |-> taskId,
    count |-> 0, numbered |-> << >> ]

NoResult == Result(FALSE, "none", << >>, 0)

\* what the route answers: reply.code(c).send({ success: false, error })
ErrorResponse(c, error) ==
  [ code |-> c, success |-> FALSE, error |-> error, result |-> NoResult, databaseId |-> 0,
    audioResponse |-> "absent" ]

NoResponse == ErrorResponse(0, "none")

\* what the transcription of the request's audioBuffer gives: no audio was
\* sent, transcribeAudio throws, or it returns a text (possibly empty)
AudioInputs ==
  { [ kind |-> "none", text |-> << >> ],
    [ kind |-> "throws", text |-> << >> ],
    [ kind |-> "text", text |-> << >> ],
    [ kind |-> "text", text |-> << "s","h","o","w"," ","t","a","s","k","s" >> ] }

\* the messages the WebSocket route sends for what processVoiceCommand answers
\* (web_socket.ts 41-85): mockReply.send sends 'error' and returns mockReply,
\* which the route then takes for the response object
SocketMessages(resp) ==
  IF resp.code # 200 THEN << "error", "result" >>
  ELSE << "transcription", "intent", "result" >>
         \o (IF resp.audioResponse = "base64" THEN << "audio" >> ELSE << >>)

\* the messages sent for the response of a controller behind the given route
Sent(route, resp) == IF route = "ws" THEN SocketMessages(resp) ELSE << >>

(***************************************************************************)
(* VoiceQueryController.processVoiceCommand, step by step                  *)
(***************************************************************************)
\* lines 132-159: a command arrives; without text its audio is transcribed; a
\* transcription that throws is answered with 500, an empty text with 400
ReceiveCommand(text, audio) ==
  /\ pc \in { "idle", "responded" }
  /\ nCommands < MaxCommands
  /\ nCommands' = nCommands + 1
  /\ commandText' = IF text # << >> THEN text
                    ELSE IF audio.kind = "text" THEN audio.text
                    ELSE << >>
  /\ intent' = NoIntent
  /\ geminiCalled' = FALSE
  /\ geminiReply' = NoReply
  /\ storeCalls' = { }
  /\ result' = NoResult
  /\ storeBefore' = store
  /\ synthesis' = "none"
  /\ IF text = << >> /\ audio.kind = "throws"
       THEN /\ response' = ErrorResponse(500, "11 Labs STT failed: ${errorMessage}")
            /\ pc' = "responded"
            /\ socketMessages' = Sent(transport, response')
       ELSE IF commandText' = << >>
       THEN /\ response' = ErrorResponse(400, "No command provided")
            /\ pc' = "responded"
            /\ socketMessages' = Sent(transport, response')
       ELSE /\ response' = NoResponse
            /\ pc' = "transcribed"
            /\ socketMessages' = << >>
  /\ UNCHANGED << store, databases, gtdDatabaseId, lastCreated, transport, ensureCalls, otherVars >>

\* lines 161-171: Tier-1 classification
DetectIntent ==
  /\ pc = "transcribed"
  /\ intent' = detectIntentFromText(commandText)
  /\ pc' = IF intent'.action = "unclear" THEN "gemini" ELSE "classified"
  /\ UNCHANGED << store, databases, gtdDatabaseId, commandText, geminiCalled,
                  geminiReply, storeCalls, result, response, nCommands, storeBefore,
                  lastCreated, synthesis, transport, socketMessages, ensureCalls, otherVars >>

\* lines 171-174: the generative fallback, merged over the Tier-1 intent
ParseVoiceCommand(reply) ==
  /\ pc = "gemini"
  /\ geminiCalled' = TRUE
  /\ geminiReply' = reply
  /\ intent' = MergeIntent(intent, parseVoiceCommand(commandText, reply))
  /\ pc' = "classified"
  /\ UNCHANGED << store, databases, gtdDatabaseId, commandText, storeCalls, result,
                  response, nCommands, storeBefore, lastCreated, synthesis, transport,
                  socketMessages, ensureCalls, otherVars >>

\* lines 178-179 with ensureGTDDatabase (45-126) and the catch of 227-232
EnsureGTDDatabase(searchOk, createOk) ==
  /\ pc = "classified"
  /\ IF gtdDatabaseId # 0 THEN
       /\ pc' = "dispatch"
       /\ UNCHANGED << gtdDatabaseId, databases, storeCalls, response, socketMessages >>
     ELSE IF ~searchOk THEN
       /\ storeCalls' = storeCalls \cup { "search" }
       /\ response' = ErrorResponse(500, "Failed to setup database")
       /\ socketMessages' = Sent(transport, response')
       /\ pc' = "responded"
       /\ UNCHANGED << gtdDatabaseId, databases >>
     ELSE IF Len(databases) > 0 THEN
       /\ storeCalls' = storeCalls \cup { "search" }
       /\ gtdDatabaseId' = databases[1]
       /\ pc' = "dispatch"
       /\ UNCHANGED << databases, response, socketMessages >>
     ELSE IF ~createOk THEN
       /\ storeCalls' = storeCalls \cup { "search", "databases.create" }
       /\ response' = ErrorResponse(500, "Failed to setup database")
       /\ socketMessages' = Sent(transport, response')
       /\ pc' = "responded"
       /\ UNCHANGED << gtdDatabaseId, databases >>
     ELSE
       /\ storeCalls' = storeCalls \cup { "search", "databases.create" }
       /\ databases' = << Len(databases) + 1 >>
       /\ gtdDatabaseId' = Len(databases) + 1
       /\ pc' = "dispatch"
       /\ UNCHANGED << response, socketMessages >>
  /\ UNCHANGED << store, commandText, intent, geminiCalled, geminiReply, result,
                  nCommands, storeBefore, lastCreated, synthesis, transport, ensureCalls, otherVars >>

\* what a handler leaves alone
HandlerFrame == UNCHANGED << databases, gtdDatabaseId, commandText, intent, geminiCalled,
                             geminiReply, response, nCommands, storeBefore, synthesis,
                             transport, socketMessages, ensureCalls, otherVars >>

\* the text handleCreateGTD stores
CreateTaskText(i, originalText) ==
  IF Truthy(i.todoText) THEN i.todoText
  ELSE trim(StripLeading(originalText,
              << Lit.add, Lit.create, Lit.new, Lit.make, Lit.remember, Lit.remind >>))

\* handleCreateGTD (652-771)
HandleCreateGTD(storeOk) ==
  /\ pc = "dispatch"
  /\ intent.action = "create"
  /\ pc' = "executed"
  /\ LET taskText == CreateTaskText(intent, commandText)
     IN IF taskText = << >> THEN
          /\ result' = Result(FALSE, "I didn't catch what task you want to add. Please try again.", << >>, 0)
          /\ UNCHANGED << store, storeCalls, lastCreated >>
        ELSE IF ~storeOk THEN
          /\ storeCalls' = storeCalls \cup { "pages.create" }
          /\ result' = Result(FALSE, "Failed to add task: ${error}", << >>, 0)
          /\ UNCHANGED << store, lastCreated >>
        ELSE
          /\ storeCalls' = storeCalls \cup { "pages.create" }
          /\ store' = Append(store, Task(Len(store) + 1, gtdDatabaseId, taskText, "Todo",
                                         extractPriority(commandText),
                                         extractCategory(commandText), "none"))
          /\ result' = Result(TRUE, "Added \"${taskText}\" to your tasks", taskText, Len(store) + 1)
          /\ lastCreated' = [ id |-> Len(store) + 1, text |-> taskText ]
  /\ HandlerFrame

\* the status update writing the option the page already has
MarkDone_KeepsStatus(t) == t

\* properties: { Status: { select: { name: 'Done' } } }
MarkDone(t) == [ t EXCEPT !.status = "Done" ]

\* the searchText of handleCompleteGTD
CompleteSearchText(i, originalText) ==
  IF Truthy(i.targetTodo) THEN i.targetTodo ELSE originalText

\* the positional branch is taken for this searchText
IsPositional(searchText) ==
  searchText = Lit.first \/ searchText = Lit.last \/ IsNumber(searchText)

\* the task handleCompleteGTD resolves for a searchText, 0 when none
ResolveCompleteTarget(searchText, pages, db) ==
  LET byPosition == IF IsPositional(searchText)
                      THEN PositionalTarget(searchText, QueryTodoToday(pages, db))
                      ELSE 0
  IN IF byPosition # 0 THEN byPosition ELSE FindBestMatch(QueryTodo(pages, db), searchText)

\* handleCompleteGTD (507-648)
HandleCompleteGTD(storeOk) ==
  /\ pc = "dispatch"
  /\ intent.action = "complete"
  /\ pc' = "executed"
  /\ LET searchText == CompleteSearchText(intent, commandText)
         target == ResolveCompleteTarget(searchText, store, gtdDatabaseId)
     IN IF ~storeOk THEN
          /\ storeCalls' = storeCalls \cup { "databases.query" }
          /\ result' = Result(FALSE, "Failed to complete task", << >>, 0)
          /\ UNCHANGED store
        ELSE IF target = 0 THEN
          /\ storeCalls' = storeCalls \cup { "databases.query" }
          /\ result' = Result(FALSE, "Couldn't find \"${searchText}\" in your tasks. Try 'show tasks' to see what's available.", searchText, 0)
          /\ UNCHANGED store
        ELSE
          /\ storeCalls' = storeCalls \cup { "databases.query", "pages.update" }
          /\ store' = UpdatePage(MarkDone(Page(store, target)))
          /\ result' = Result(TRUE, "Completed \"${taskName}\"", Page(store, target).title, target)
  /\ UNCHANGED lastCreated
  /\ HandlerFrame

\* the update writing the Status option of a new task as well
UpdateProperties_ReopensTask(t, i) ==
  IF Truthy(i.newText) THEN [ t EXCEPT !.title = i.newText, !.status = "Todo" ] ELSE t

\* updateProperties (258-287): the title is replaced when the intent has a
\* newText; the priority and due-date updates are commented out
UpdateProperties(t, i) ==
  IF Truthy(i.newText) THEN [ t EXCEPT !.title = i.newText ] ELSE t

\* handleUpdateGTD (237-298)
HandleUpdateGTD(storeOk) ==
  /\ pc = "dispatch"
  /\ intent.action = "update"
  /\ pc' = "executed"
  /\ IF ~Truthy(intent.targetTodo) THEN
       /\ result' = Result(FALSE, "Which task do you want to update?", << >>, 0)
       /\ UNCHANGED << store, storeCalls >>
     ELSE IF ~storeOk THEN
       /\ storeCalls' = storeCalls \cup { "databases.query" }
       /\ result' = Result(FALSE, "Failed to update task", << >>, 0)
       /\ UNCHANGED store
     ELSE LET found == QueryTitleContains(store, gtdDatabaseId, intent.targetTodo)
          IN IF Len(found) = 0 THEN
               /\ storeCalls' = storeCalls \cup { "databases.query" }
               /\ result' = Result(FALSE, "Couldn't find task \"${intent.targetTodo}\"", intent.targetTodo, 0)
               /\ UNCHANGED store
             ELSE
               /\ storeCalls' = storeCalls \cup { "databases.query", "pages.update" }
               /\ store' = UpdatePage(UpdateProperties(found[1], intent))
               /\ result' = Result(TRUE, "Updated \"${intent.targetTodo}\"${intent.newText ? ` to \"${intent.newText}\"` : ''}", intent.targetTodo, found[1].id)
  /\ UNCHANGED lastCreated
  /\ HandlerFrame

\* the archive call leaving the page in the collection
Archive_KeepsPage(t) == t

\* archived: true
Archive(t) == [ t EXCEPT !.archived = TRUE ]

\* handleDeleteGTD (774-825); failed is the set of pages whose archive call
\* rejects (Promise.all rejects when it is not empty, the other calls still run)
HandleDeleteGTD(queryOk, failed) ==
  /\ pc = "dispatch"
  /\ intent.action = "delete"
  /\ pc' = "executed"
  /\ IF ~Truthy(intent.targetTodo) THEN
       /\ result' = Result(FALSE, "Which task do you want to delete?", << >>, 0)
       /\ failed = { }
       /\ queryOk
       /\ UNCHANGED << store, storeCalls >>
     ELSE IF ~queryOk THEN
       /\ storeCalls' = storeCalls \cup { "databases.query" }
       /\ result' = Result(FALSE, "Failed to delete task", << >>, 0)
       /\ failed = { }
       /\ UNCHANGED store
     ELSE LET all == toLowerCase(intent.targetTodo) = Lit.all
              tasksToDelete == IF all THEN QueryAll(store, gtdDatabaseId)
                               ELSE QueryTitleContains(store, gtdDatabaseId, intent.targetTodo)
              ids == { tasksToDelete[k].id : k \in 1..Len(tasksToDelete) }
          IN IF Len(tasksToDelete) = 0 THEN
               /\ storeCalls' = storeCalls \cup { "databases.query" }
               /\ result' = Result(FALSE, "Couldn't find task \"${intent.targetTodo}\"", intent.targetTodo, 0)
               /\ failed = { }
               /\ UNCHANGED store
             ELSE
               /\ failed \subseteq ids
               /\ storeCalls' = storeCalls \cup { "databases.query", "pages.update" }
               /\ store' = [ k \in 1..Len(store) |->
                               IF store[k].id \in ids \ failed THEN Archive(store[k])
                               ELSE store[k] ]
               /\ result' =
                    IF failed # { } THEN Result(FALSE, "Failed to delete task", << >>, 0)
                    ELSE IF all
                      THEN [ Result(TRUE, "Deleted all ${tasksToDelete.length} tasks", << >>, 0)
                               EXCEPT !.count = Len(tasksToDelete) ]
                      ELSE Result(TRUE, "Deleted \"${title}\"",
                                  IF tasksToDelete[1].title # << >>
                                    THEN tasksToDelete[1].title ELSE intent.targetTodo, 0)
  /\ UNCHANGED lastCreated
  /\ HandlerFrame

\* handleListGTD (828-902); numbered is the "To do" part of the message
HandleListGTD(storeOk) ==
  /\ pc = "dispatch"
  /\ intent.action = "list"
  /\ pc' = "executed"
  /\ storeCalls' = storeCalls \cup { "databases.query" }
  /\ LET tasks == QuerySorted(store, gtdDatabaseId)
         todoTasks == SelectSeq(tasks, LAMBDA t : t.status = "Todo")
     IN result' =
          IF ~storeOk THEN Result(FALSE, "Failed to list tasks", << >>, 0)
          ELSE IF Len(tasks) = 0
            THEN Result(TRUE, "No tasks yet. Start by adding some!", << >>, 0)
            ELSE [ Result(TRUE, "Your tasks (${doneTasks.length}/${tasks.length} done):", << >>, 0)
                     EXCEPT !.count = Len(tasks),
                            !.numbered = [ k \in 1..Len(todoTasks) |-> todoTasks[k].id ] ]
  /\ UNCHANGED store
  /\ UNCHANGED lastCreated
  /\ HandlerFrame

\* the default branch of the switch (199-203)
HandleUnclear ==
  /\ pc = "dispatch"
  /\ intent.action \notin { "create", "complete", "update", "delete", "list" }
  /\ pc' = "executed"
  /\ result' = Result(FALSE, "I didn't understand. Try: 'add task', 'complete task', 'show tasks'.", << >>, 0)
  /\ UNCHANGED << store, storeCalls >>
  /\ UNCHANGED lastCreated
  /\ HandlerFrame

\* the audio reply that is never empty
generateAudioResponse_AlwaysAudio(ttsOk) == "base64"

\* generateAudioResponse (933-952): the audio in base64, '' when synthesis
\* throws
generateAudioResponse(ttsOk) == IF ttsOk THEN "base64" ELSE "empty"

\* lines 206-223: the response object, with the audio reply when one was asked
\* for (every result of a handler has a message)
BuildResponse(res, databaseId, returnAudio, ttsOk) ==
  [ code |-> 200, success |-> TRUE, error |-> "none", result |-> res,
    databaseId |-> databaseId,
    audioResponse |-> IF returnAudio THEN generateAudioResponse(ttsOk) ELSE "absent" ]

\* lines 206-225: the response object is returned
Respond(returnAudio, ttsOk) ==
  /\ pc = "executed"
  /\ pc' = "responded"
  /\ returnAudio \/ ttsOk      \* without an audio request nothing is synthesized
  /\ synthesis' = IF ~returnAudio THEN "notRequested"
                  ELSE IF ttsOk THEN "succeeded" ELSE "failed"
  /\ response' = BuildResponse(result, gtdDatabaseId, returnAudio, ttsOk)
  /\ socketMessages' = Sent(transport, response')
  /\ UNCHANGED << store, databases, gtdDatabaseId, commandText, intent, geminiCalled,
                  geminiReply, storeCalls, result, nCommands, storeBefore, lastCreated,
                  transport, ensureCalls, otherVars >>

(***************************************************************************)
(* Specifications                                                          *)
(***************************************************************************)
\* a freshly constructed controller; the workspace may or may not hold a
\* 'Daily Tasks' database already
Init ==
  /\ \/ databases = << >> /\ store = << >>
     \/ databases = << 1 >> /\ store \in { << >>, ExistingPages }
  /\ gtdDatabaseId = 0
  /\ pc = "idle"
  /\ commandText = << >>
  /\ intent = NoIntent
  /\ geminiCalled = FALSE
  /\ geminiReply = NoReply
  /\ storeCalls = { }
  /\ result = NoResult
  /\ response = NoResponse
  /\ nCommands = 0
  /\ storeBefore = store
  /\ lastCreated = NoneCreated
  /\ synthesis = "none"
  /\ transport \in { "http", "ws" }
  /\ socketMessages = << >>
  /\ ensureCalls = << >>
  /\ NoOtherComponents

Next ==
  \/ \E text \in CommandTexts, audio \in AudioInputs : ReceiveCommand(text, audio)
  \/ DetectIntent
  \/ \E reply \in GeminiReplies : ParseVoiceCommand(reply)
  \/ \E searchOk \in BOOLEAN, createOk \in BOOLEAN : EnsureGTDDatabase(searchOk, createOk)
  \/ \E storeOk \in BOOLEAN : HandleCreateGTD(storeOk)
  \/ \E storeOk \in BOOLEAN : HandleCompleteGTD(storeOk)
  \/ \E storeOk \in BOOLEAN : HandleUpdateGTD(storeOk)
  \/ \E queryOk \in BOOLEAN, failed \in SUBSET (1..Len(store)) : HandleDeleteGTD(queryOk, failed)
  \/ \E storeOk \in BOOLEAN : HandleListGTD(storeOk)
  \/ HandleUnclear
  \/ \E returnAudio \in BOOLEAN, ttsOk \in BOOLEAN : Respond(returnAudio, ttsOk)

Spec == Init /\ [][Next]_vars

\* the classifier alone, applied to every text of ClassifyTexts
InitClassify ==
  /\ store = << >>
  /\ databases = << >>
  /\ gtdDatabaseId = 0
  /\ pc = "transcribed"
  /\ commandText \in ClassifyTexts
  /\ intent = NoIntent
  /\ geminiCalled = FALSE
  /\ geminiReply = NoReply
  /\ storeCalls = { }
  /\ result = NoResult
  /\ response = NoResponse
  /\ nCommands = 1
  /\ storeBefore = << >>
  /\ lastCreated = NoneCreated
  /\ synthesis = "none"
  /\ transport = "http"
  /\ socketMessages = << >>
  /\ ensureCalls = << >>
  /\ NoOtherComponents

SpecClassify == InitClassify /\ [][DetectIntent]_vars

(***************************************************************************)
(* ensureGTDDatabase (45-126) under concurrent commands: every await is a  *)
(* point where another call of the same controller can run                 *)
(***************************************************************************)
\* the commands in flight that call ensureGTDDatabase
Callers == 1..2

\* line 46: if (this.gtdDatabaseId)
IsCached_Never(id) == FALSE

IsCached(id) == id # 0

\* a caller that is not inside ensureGTDDatabase
NoEnsureCall ==
  [ pc |-> "idle", startedWith |-> 0, returned |-> 0, calls |-> { }, n |-> 0 ]

\* what an action on caller c leaves alone
EnsureFrame == UNCHANGED << store, pc, commandText, intent, geminiCalled, geminiReply,
                            storeCalls, result, response, nCommands, storeBefore,
                            lastCreated, synthesis, transport, socketMessages,
                            otherVars >>

\* lines 45-48: the call begins; a cached id is returned at once
EnsureStart(c) ==
  /\ ensureCalls[c].pc \in { "idle", "returned", "threw" }
  /\ ensureCalls[c].n < MaxEnsureCalls
  /\ ensureCalls' =
       [ ensureCalls EXCEPT ![c] =
           [ pc |-> IF IsCached(gtdDatabaseId) THEN "returned" ELSE "search",
             startedWith |-> gtdDatabaseId,
             returned |-> IF IsCached(gtdDatabaseId) THEN gtdDatabaseId ELSE 0,
             calls |-> { },
             n |-> ensureCalls[c].n + 1 ] ]
  /\ UNCHANGED << gtdDatabaseId, databases >>
  /\ EnsureFrame

\* lines 52-63 and 122-125: notion.search answers
EnsureSearch(c, searchOk) ==
  /\ ensureCalls[c].pc = "search"
  /\ LET call == [ ensureCalls[c] EXCEPT !.calls = @ \cup { "search" } ]
     IN IF ~searchOk THEN
          /\ ensureCalls' = [ ensureCalls EXCEPT ![c] = [ call EXCEPT !.pc = "threw" ] ]
          /\ UNCHANGED gtdDatabaseId
        ELSE IF Len(databases) > 0 THEN
          /\ gtdDatabaseId' = databases[1]
          /\ ensureCalls' = [ ensureCalls EXCEPT ![c] =
                                [ call EXCEPT !.pc = "returned", !.returned = databases[1] ] ]
        ELSE
          /\ ensureCalls' = [ ensureCalls EXCEPT ![c] = [ call EXCEPT !.pc = "create" ] ]
          /\ UNCHANGED gtdDatabaseId
  /\ UNCHANGED databases
  /\ EnsureFrame

\* lines 65-120 and 122-125: notion.databases.create answers
EnsureCreate(c, createOk) ==
  /\ ensureCalls[c].pc = "create"
  /\ LET call == [ ensureCalls[c] EXCEPT !.calls = @ \cup { "databases.create" } ]
         newDatabase == Len(databases) + 1
     IN IF ~createOk THEN
          /\ ensureCalls' = [ ensureCalls EXCEPT ![c] = [ call EXCEPT !.pc = "threw" ] ]
          /\ UNCHANGED << gtdDatabaseId, databases >>
        ELSE
          /\ databases' = Append(databases, newDatabase)
          /\ gtdDatabaseId' = newDatabase
          /\ ensureCalls' = [ ensureCalls EXCEPT ![c] =
                                [ call EXCEPT !.pc = "returned", !.returned = newDatabase ] ]
  /\ EnsureFrame

\* a freshly constructed controller whose commands have not begun
InitEnsure ==
  /\ store = << >>
  /\ databases \in { << >>, << 1 >> }
  /\ gtdDatabaseId = 0
  /\ pc = "idle"
  /\ commandText = << >>
  /\ intent = NoIntent
  /\ geminiCalled = FALSE
  /\ geminiReply = NoReply
  /\ storeCalls = { }
  /\ result = NoResult
  /\ response = NoResponse
  /\ nCommands = 0
  /\ storeBefore = << >>
  /\ lastCreated = NoneCreated
  /\ synthesis = "none"
  /\ transport \in { "http", "ws" }
  /\ socketMessages = << >>
  /\ ensureCalls = [ c \in Callers |-> NoEnsureCall ]
  /\ NoOtherComponents

NextEnsure ==
  \/ \E c \in Callers : EnsureStart(c)
  \/ \E c \in Callers, searchOk \in BOOLEAN : EnsureSearch(c, searchOk)
  \/ \E c \in Callers, createOk \in BOOLEAN : EnsureCreate(c, createOk)

SpecEnsure == InitEnsure /\ [][NextEnsure]_vars

(***************************************************************************)
(* Two commands inside processVoiceCommand (178-212) at once.  A turn of   *)
(* the event loop runs from one answer of the store to the next store      *)
(* call: awaiting a call of ensureGTDDatabase that returns the cached id   *)
(* makes no store call, so it is part of the turn that reaches it.         *)
(***************************************************************************)
\* no command is being handled by the controller on its own
CommandIdle ==
  /\ pc = "idle"
  /\ commandText = << >>
  /\ intent = NoIntent
  /\ geminiCalled = FALSE
  /\ geminiReply = NoReply
  /\ storeCalls = { }
  /\ result = NoResult
  /\ response = NoResponse
  /\ nCommands = 0
  /\ storeBefore = << >>
  /\ lastCreated = NoneCreated
  /\ synthesis = "none"
  /\ transport = "http"
  /\ socketMessages = << >>
  /\ ensureCalls = << >>

\* a command whose intent is known and that has not reached line 179
ReceivedCommand(action) ==
  [ pc |-> "received", action |-> action, databaseId |-> 0, handlerDatabaseId |-> 0,
    usedDatabase |-> 0, code |-> 0, reported |-> 0, createdDatabase |-> 0 ]

\* the handler reads the first database of the workspace instead of the cache
RaceDispatch_FirstDatabase(call, id) ==
  [ call EXCEPT !.pc = "handler", !.databaseId = id, !.handlerDatabaseId = 1 ]

\* lines 179-194, then 661 or 830: the call at line 179 returns id, the switch
\* calls the handler and the handler's own call of ensureGTDDatabase returns
\* the cached id, which is the id just returned
RaceDispatch(call, id) ==
  [ call EXCEPT !.pc = "handler", !.databaseId = id, !.handlerDatabaseId = id ]

\* what a step of a command in flight leaves alone
RaceFrame == UNCHANGED << commandVars, sessionVars, recorderVars, managerVars, taskVars >>

\* lines 179 and 45-52: the command calls ensureGTDDatabase
RaceEnsure(c) ==
  /\ inFlight[c].pc = "received"
  /\ inFlight' = [ inFlight EXCEPT ![c] =
                     IF IsCached(gtdDatabaseId) THEN RaceDispatch(@, gtdDatabaseId)
                     ELSE [ @ EXCEPT !.pc = "search" ] ]
  /\ UNCHANGED storeVars
  /\ RaceFrame

\* lines 52-63, 122-125 and 226-232: notion.search answers
RaceSearch(c, searchOk) ==
  /\ inFlight[c].pc = "search"
  /\ IF ~searchOk THEN
       /\ inFlight' = [ inFlight EXCEPT ![c] = [ @ EXCEPT !.pc = "responded", !.code = 500 ] ]
       /\ UNCHANGED gtdDatabaseId
     ELSE IF Len(databases) > 0 THEN
       /\ gtdDatabaseId' = databases[1]
       /\ inFlight' = [ inFlight EXCEPT ![c] = RaceDispatch(@, databases[1]) ]
     ELSE
       /\ inFlight' = [ inFlight EXCEPT ![c] = [ @ EXCEPT !.pc = "create" ] ]
       /\ UNCHANGED gtdDatabaseId
  /\ UNCHANGED << store, databases >>
  /\ RaceFrame

\* lines 65-120, 122-125 and 226-232: notion.databases.create answers
RaceCreate(c, createOk) ==
  /\ inFlight[c].pc = "create"
  /\ IF ~createOk THEN
       /\ inFlight' = [ inFlight EXCEPT ![c] = [ @ EXCEPT !.pc = "responded", !.code = 500 ] ]
       /\ UNCHANGED << gtdDatabaseId, databases >>
     ELSE LET newDatabase == Len(databases) + 1
          IN /\ databases' = Append(databases, newDatabase)
             /\ gtdDatabaseId' = newDatabase
             /\ inFlight' = [ inFlight EXCEPT ![c] =
                                RaceDispatch([ @ EXCEPT !.createdDatabase = newDatabase ],
                                             newDatabase) ]
  /\ UNCHANGED store
  /\ RaceFrame

\* handleCreateGTD (661-738) or handleListGTD (830-902), then lines 206-225:
\* the handler's store call answers, made with the id the handler holds, and
\* the response carries the id line 179 received
RaceHandler(c, storeOk) ==
  /\ inFlight[c].pc = "handler"
  /\ inFlight' = [ inFlight EXCEPT ![c] =
                     [ @ EXCEPT !.pc = "responded", !.code = 200,
                                !.usedDatabase = inFlight[c].handlerDatabaseId,
                                !.reported = inFlight[c].databaseId ] ]
  /\ store' = IF inFlight[c].action = "create" /\ storeOk
                THEN Append(store, Task(Len(store) + 1, inFlight[c].handlerDatabaseId,
                                        << "m","i","l","k" >>, "Todo", "Medium",
                                        "Personal", "today"))
                ELSE store
  /\ UNCHANGED << databases, gtdDatabaseId >>
  /\ RaceFrame

\* a freshly constructed controller and two commands that have been classified
InitRace ==
  /\ store = << >>
  /\ databases \in { << >>, << 1 >> }
  /\ gtdDatabaseId = 0
  /\ CommandIdle
  /\ inFlight \in [ Callers -> { ReceivedCommand("create"), ReceivedCommand("list") } ]
  /\ NoSessions /\ NoRecorder /\ NoManager /\ NoTasks

NextRace ==
  \/ \E c \in Callers : RaceEnsure(c)
  \/ \E c \in Callers, searchOk \in BOOLEAN : RaceSearch(c, searchOk)
  \/ \E c \in Callers, createOk \in BOOLEAN : RaceCreate(c, createOk)
  \/ \E c \in Callers, storeOk \in BOOLEAN : RaceHandler(c, storeOk)

SpecRace == InitRace /\ [][NextRace]_vars

(***************************************************************************)
(* The voice session routes: /ws/voice (webSocketVoice.ts) keeps its       *)
(* sessions in activeSessions, /ws/notion/voice (simpleNotion.ts) in       *)
(* sessions.  A session is an object: the maps and the running handlers    *)
(* hold references to it.  The set_language and get_status commands change *)
(* no buffered audio and are left out, and so are the fields language and  *)
(* startTime, which only label the stored note.                            *)
(***************************************************************************)
\* the connections a client opens
Conns == 1..2

\* Map.prototype.set
MapSet(map, key, value) ==
  [ k \in (DOMAIN map) \cup { key } |-> IF k = key THEN value ELSE map[k] ]

\* Map.prototype.delete
MapDelete(map, key) == [ k \in (DOMAIN map) \ { key } |-> map[k] ]

\* Map.prototype.get; 0 is undefined
MapGet(map, key) == IF key \in DOMAIN map THEN map[key] ELSE 0

\* a socket that has not connected
NoConnection == [ route |-> "none", state |-> "none", sessionId |-> << >>, chunksSent |-> 0 ]

\* a session object that has not been created
NoSession == [ id |-> << >>, audioChunks |-> << >> ]

\* webSocketVoice.ts 249-251: `voice_${Date.now()}_${random}`; the random
\* suffix differs from one connection to the next
generateSessionId(c) == << "voice", clock, c >>

\* simpleNotion.ts 16: `session_${Date.now()}`
SimpleSessionId(c) == << "session", clock >>

\* the session map of the route
SessionMap(route) == IF route = "/ws/voice" THEN activeSessions ELSE sessions

\* the session object the handlers of connection c get from their map, 0 when
\* there is none
SessionOf(c) ==
  MapGet(SessionMap(wsConnections[c].route), wsConnections[c].sessionId)

\* the runs of the pipeline that have not ended
Running == { i \in 1..Len(flushed) : flushed[i].outcome = "running" }

\* the chunks a run of the pipeline that succeeded has processed
ProcessedChunks ==
  UNION { { flushed[i].audio[k] : k \in 1..Len(flushed[i].audio) } :
            i \in { j \in 1..Len(flushed) : flushed[j].outcome = "ok" } }

\* Buffer.concat(session.audioChunks) enters the pipeline (webSocketVoice.ts
\* 115-119, simpleNotion.ts 98-102) on behalf of connection c
Flush(c, kind, object) ==
  [ conn |-> c, kind |-> kind, object |-> object,
    audio |-> sessionObjects[object].audioChunks,
    repeats |-> \E k \in 1..Len(sessionObjects[object].audioChunks) :
                  sessionObjects[object].audioChunks[k] \in ProcessedChunks,
    outcome |-> "running" ]

\* what the voice routes leave alone
SessionFrame == UNCHANGED << storeVars, commandVars, inFlight, recorderVars, managerVars,
                             taskVars >>

\* the clock advances; the routes read it when a client connects
Tick ==
  /\ clock < MaxClock
  /\ \E c \in Conns : wsConnections[c].state = "none"
  /\ clock' = clock + 1
  /\ UNCHANGED << activeSessions, sessions, sessionObjects, wsConnections, flushed >>
  /\ SessionFrame

\* webSocketVoice.ts 29-41 and simpleNotion.ts 14-25: a client connects
Connect(c) ==
  /\ wsConnections[c].state = "none"
  /\ LET route == wsConnections[c].route
         sessionId == IF route = "/ws/voice" THEN generateSessionId(c)
                      ELSE SimpleSessionId(c)
     IN /\ wsConnections' = [ wsConnections EXCEPT ![c].state = "open",
                                                   ![c].sessionId = sessionId ]
        /\ sessionObjects' = [ sessionObjects EXCEPT ![c] =
                                 [ id |-> sessionId, audioChunks |-> << >> ] ]
        /\ IF route = "/ws/voice"
             THEN activeSessions' = MapSet(activeSessions, sessionId, c)
                  /\ UNCHANGED sessions
             ELSE sessions' = MapSet(sessions, sessionId, c)
                  /\ UNCHANGED activeSessions
  /\ UNCHANGED << clock, flushed >>
  /\ SessionFrame

\* webSocketVoice.ts 43-64 and simpleNotion.ts 34-50: a message that is not
\* JSON arrives on connection c
AudioMessage(c) ==
  /\ wsConnections[c].state = "open"
  /\ wsConnections[c].chunksSent < MaxChunks
  /\ wsConnections' = [ wsConnections EXCEPT ![c].chunksSent = @ + 1 ]
  /\ LET session == SessionOf(c)
         chunk == << c, wsConnections[c].chunksSent + 1 >>
     IN IF session = 0
          THEN UNCHANGED sessionObjects
          ELSE sessionObjects' = [ sessionObjects EXCEPT ![session].audioChunks =
                                     Append(@, chunk) ]
  /\ UNCHANGED << activeSessions, sessions, clock, flushed >>
  /\ SessionFrame

\* webSocketVoice.ts 178-196: the command start_recording
StartRecordingCommand(c) ==
  /\ wsConnections[c].state = "open"
  /\ wsConnections[c].route = "/ws/voice"
  /\ LET session == SessionOf(c)
     IN IF session = 0
          THEN UNCHANGED sessionObjects
          ELSE sessionObjects' = [ sessionObjects EXCEPT ![session].audioChunks = << >> ]
  /\ UNCHANGED << activeSessions, sessions, wsConnections, clock, flushed >>
  /\ SessionFrame

\* webSocketVoice.ts 198-206 (stop_recording) and simpleNotion.ts 82-102
\* (process_audio): the buffered audio enters the pipeline
ProcessCommand(c) ==
  /\ wsConnections[c].state = "open"
  /\ Len(flushed) < MaxFlushes
  /\ LET session == SessionOf(c)
     IN /\ session # 0
        /\ IF sessionObjects[session].audioChunks = << >>
             THEN UNCHANGED flushed
             ELSE flushed' = Append(flushed,
                                    Flush(c, IF wsConnections[c].route = "/ws/voice"
                                               THEN "stop_recording" ELSE "process_audio",
                                          session))
  /\ UNCHANGED << activeSessions, sessions, sessionObjects, wsConnections, clock >>
  /\ SessionFrame

\* webSocketVoice.ts 81-91 and simpleNotion.ts 60-63: the socket closes
Close(c) ==
  /\ wsConnections[c].state = "open"
  /\ wsConnections' = [ wsConnections EXCEPT ![c].state = "closed" ]
  /\ LET session == SessionOf(c)
         sessionId == wsConnections[c].sessionId
     IN IF wsConnections[c].route = "/ws/voice" THEN
          /\ UNCHANGED sessions
          /\ IF session = 0 \/ sessionObjects[session].audioChunks = << >>
               THEN /\ activeSessions' = MapDelete(activeSessions, sessionId)
                    /\ UNCHANGED flushed
               ELSE /\ Len(flushed) < MaxFlushes
                    /\ flushed' = Append(flushed, Flush(c, "close", session))
                    /\ UNCHANGED activeSessions
        ELSE
          /\ sessions' = MapDelete(sessions, sessionId)
          /\ UNCHANGED << activeSessions, flushed >>
  /\ UNCHANGED << sessionObjects, clock >>
  /\ SessionFrame

\* webSocketVoice.ts 91-98 and 206-218, simpleNotion.ts 102-152: run i of the
\* pipeline ends
FlushDone(i, ok) ==
  /\ i \in Running
  /\ flushed' = [ flushed EXCEPT ![i].outcome = IF ok THEN "ok" ELSE "failed" ]
  /\ LET run == flushed[i]
     IN /\ IF run.kind = "process_audio" /\ ok
             THEN sessionObjects' = [ sessionObjects EXCEPT ![run.object].audioChunks = << >> ]
             ELSE UNCHANGED sessionObjects
        /\ IF run.kind = "close"
             THEN activeSessions' = MapDelete(activeSessions, wsConnections[run.conn].sessionId)
             ELSE UNCHANGED activeSessions
  /\ UNCHANGED << sessions, wsConnections, clock >>
  /\ SessionFrame

\* the server after both routes were registered; every client uses one route
InitSessions ==
  /\ store = << >> /\ databases = << >> /\ gtdDatabaseId = 0
  /\ CommandIdle
  /\ NoRace /\ NoRecorder /\ NoManager /\ NoTasks
  /\ activeSessions = << >>
  /\ sessions = << >>
  /\ sessionObjects = [ c \in Conns |-> NoSession ]
  /\ \E route \in { "/ws/voice", "/ws/notion/voice" } :
       wsConnections = [ c \in Conns |-> [ NoConnection EXCEPT !.route = route ] ]
  /\ clock = 0
  /\ flushed = << >>

NextSessions ==
  \/ Tick
  \/ \E c \in Conns : Connect(c)
  \/ \E c \in Conns : AudioMessage(c)
  \/ \E c \in Conns : StartRecordingCommand(c)
  \/ \E c \in Conns : ProcessCommand(c)
  \/ \E c \in Conns : Close(c)
  \/ \E i \in 1..MaxFlushes, ok \in BOOLEAN : FlushDone(i, ok)

SpecSessions == InitSessions /\ [][NextSessions]_vars

(***************************************************************************)
(* One recording handler: EnhancedVoiceWebSocketHandler (part_008) or      *)
(* VoiceWebSocketHandler (part_010), which have the same fields.  The      *)
(* messages of processWithGemini and processCompleteAudio, which follow    *)
(* recording_stopped and change no field, are left out, and so is the      *)
(* partial transcript VoiceWebSocketHandler makes at every twentieth chunk.*)
(***************************************************************************)
\* part_008 472: the callback does nothing below this many buffered chunks
RealtimeMinChunks == 10

\* part_008 480: the chunks of one real-time segment
RealtimeSegmentChunks == 15

\* part_008 483: segments below this many bytes are skipped
RealtimeMinBytes == 1000

\* the sizes in bytes of the chunks a client sends, one size per client
ChunkBytes == { 90, 100 }

\* the messages that mark the course of a recording
RecordingMessages ==
  { "recording_started", "recording_stopped", "recording_cancelled", "realtime_transcript" }

\* the last n elements of a sequence (Array.prototype.slice(-n))
SliceLast(s, n) == IF Len(s) <= n THEN s ELSE SubSeq(s, Len(s) - n + 1, Len(s))

\* sendMessage (part_008 545-549, part_010 391-395): the client's view after a
\* message of the given type; nothing is sent unless the socket is open
SendMessage(cl, type) ==
  IF cl.socket # "OPEN" THEN cl
  ELSE [ cl EXCEPT !.lastMessage = type,
                   !.log = IF type \in RecordingMessages
                             THEN SliceLast(Append(@, type), 2) ELSE @ ]

\* what a recording handler leaves alone
RecorderFrame == UNCHANGED << storeVars, commandVars, inFlight, sessionVars, managerVars,
                              taskVars >>

\* startRecording (part_008 198-234, part_010 113-140)
StartRecording ==
  /\ client.socket = "OPEN"
  /\ client.starts < MaxStarts
  /\ LET cl == [ client EXCEPT !.starts = @ + 1 ]
     IN IF handler.kind = "enhanced" /\ handler.isRecording THEN
          /\ client' = SendMessage(cl, "error")
          /\ UNCHANGED handler
        ELSE
          /\ handler' = [ handler EXCEPT !.isRecording = TRUE,
                                         !.audioBuffer = << >>,
                                         !.recordingStartTime = cl.starts,
                                         !.realtimeTranscriptionTimer =
                                            IF handler.kind = "enhanced" THEN TRUE ELSE @ ]
          /\ client' = SendMessage(cl, "recording_started")
  /\ RecorderFrame

\* stopRecording (part_008 236-274, part_010 142-177)
StopRecording ==
  /\ client.socket = "OPEN"
  /\ IF ~handler.isRecording THEN
       /\ client' = SendMessage(client, "error")
       /\ UNCHANGED handler
     ELSE
       /\ handler' = [ handler EXCEPT !.isRecording = FALSE,
                                      !.realtimeTranscriptionTimer = FALSE ]
       /\ client' = SendMessage(client, "recording_stopped")
  /\ RecorderFrame

\* cancelRecording (part_008 276-288)
CancelRecording ==
  /\ client.socket = "OPEN"
  /\ handler.kind = "enhanced"
  /\ handler' = [ handler EXCEPT !.isRecording = FALSE,
                                 !.realtimeTranscriptionTimer = FALSE,
                                 !.audioBuffer = << >> ]
  /\ client' = SendMessage(client, "recording_cancelled")
  /\ RecorderFrame

\* handleAudioChunk and handleBinaryAudio (part_008 290-330), handleAudioChunk
\* and handleAudioData (part_010 179-231)
HandleAudioChunk ==
  /\ client.socket = "OPEN"
  /\ client.chunks < MaxAudioChunks
  /\ IF ~handler.isRecording THEN
       /\ client' = [ client EXCEPT !.chunks = @ + 1 ]
       /\ UNCHANGED handler
     ELSE
       /\ handler' = [ handler EXCEPT !.audioBuffer = Append(@, client.chunks + 1) ]
       /\ client' = SendMessage([ client EXCEPT !.chunks = @ + 1 ], "chunk_received")
  /\ RecorderFrame

\* the callback of startRealtimeTranscription (part_008 471-492) runs, up to
\* its await
TimerFires ==
  /\ handler.realtimeTranscriptionTimer
  /\ client.callback = "idle"
  /\ ~(~handler.isRecording \/ handler.isProcessing
        \/ Len(handler.audioBuffer) < RealtimeMinChunks)
  /\ LET recentChunks == SliceLast(handler.audioBuffer, RealtimeSegmentChunks)
     IN IF Len(recentChunks) * client.chunkBytes < RealtimeMinBytes
          THEN UNCHANGED << handler, client >>
          ELSE /\ handler' = [ handler EXCEPT !.isProcessing = TRUE ]
               /\ client' = [ client EXCEPT !.callback = "awaiting" ]
  /\ RecorderFrame

\* the transcription the callback awaits answers (part_008 486-509)
TranscribeDone(ok) ==
  /\ client.callback = "awaiting"
  /\ handler' = [ handler EXCEPT !.isProcessing = FALSE ]
  /\ client' = IF ok THEN SendMessage([ client EXCEPT !.callback = "idle" ],
                                      "realtime_transcript")
               ELSE [ client EXCEPT !.callback = "idle" ]
  /\ RecorderFrame

\* the socket closes: handleClose (part_008 563-566, part_010 408-410), then
\* cleanup (part_008 582-587, part_010 426-430) called by the manager
HandleClose ==
  /\ client.socket = "OPEN"
  /\ client' = [ client EXCEPT !.socket = "CLOSED" ]
  /\ handler' = [ handler EXCEPT !.realtimeTranscriptionTimer = FALSE,
                                 !.audioBuffer = << >>,
                                 !.isProcessing = FALSE,
                                 !.isRecording = FALSE ]
  /\ RecorderFrame

\* a handler just constructed on an open socket (part_008 96-114, part_010 21-37)
InitRecorder ==
  /\ store = << >> /\ databases = << >> /\ gtdDatabaseId = 0
  /\ CommandIdle
  /\ NoRace /\ NoSessions /\ NoManager /\ NoTasks
  /\ \E kind \in { "enhanced", "plain" } :
       handler = [ kind |-> kind, isRecording |-> FALSE, audioBuffer |-> << >>,
                   isProcessing |-> FALSE, recordingStartTime |-> 0,
                   realtimeTranscriptionTimer |-> FALSE ]
  /\ \E bytes \in ChunkBytes :
       client = [ socket |-> "OPEN", chunkBytes |-> bytes, chunks |-> 0, starts |-> 0,
                  callback |-> "idle", lastMessage |-> "connection", log |-> << >> ]

NextRecorder ==
  \/ StartRecording
  \/ StopRecording
  \/ CancelRecording
  \/ HandleAudioChunk
  \/ TimerFires
  \/ \E ok \in BOOLEAN : TranscribeDone(ok)
  \/ HandleClose

SpecRecorder == InitRecorder /\ [][NextRecorder]_vars

(***************************************************************************)
(* EnhancedWebSocketManager (part_009).  A connection id is the position   *)
(* of its socket in managerSockets (uuidv4 gives every connection a fresh  *)
(* id).  handler.cleanup(), which removeConnection calls, touches only the *)
(* handler's own fields.                                                   *)
(***************************************************************************)
\* removeConnection (part_009 48-59)
removeConnection(m, connectionId) ==
  IF connectionId \in m.connections
    THEN [ m EXCEPT !.connections = @ \ { connectionId },
                    !.stats.activeConnections = @ - 1 ]
    ELSE m

\* removeConnection for every id of a sequence, in order
RECURSIVE RemoveAll(_, _)
RemoveAll(m, ids) ==
  IF ids = << >> THEN m ELSE RemoveAll(removeConnection(m, Head(ids)), Tail(ids))

\* the elements of a finite set of numbers in increasing order (Map.forEach
\* visits the connections in insertion order)
RECURSIVE InOrder(_)
InOrder(S) ==
  IF S = {} THEN << >>
  ELSE LET least == CHOOSE x \in S : \A y \in S : x <= y
       IN << least >> \o InOrder(S \ { least })

\* what the connection manager leaves alone
ManagerFrame == UNCHANGED << storeVars, commandVars, inFlight, sessionVars, recorderVars,
                             taskVars >>

\* handleConnection (part_009 23-46)
HandleConnection ==
  /\ Len(managerSockets) < MaxConnections
  /\ LET connectionId == Len(managerSockets) + 1
     IN /\ managerSockets' = Append(managerSockets, "OPEN")
        /\ manager' = [ manager EXCEPT !.connections = @ \cup { connectionId },
                                       !.stats.totalConnections = @ + 1,
                                       !.stats.activeConnections = @ + 1 ]
  /\ ManagerFrame

\* a socket starts to close: the peer's close frame arrives or the network fails
SocketClosing(connectionId) ==
  /\ connectionId \in DOMAIN managerSockets
  /\ managerSockets[connectionId] = "OPEN"
  /\ managerSockets' = [ managerSockets EXCEPT ![connectionId] = "CLOSING" ]
  /\ UNCHANGED manager
  /\ ManagerFrame

\* the socket's 'close' event: the listener of handleConnection (part_009 32-34)
CloseEvent(connectionId) ==
  /\ connectionId \in DOMAIN managerSockets
  /\ managerSockets[connectionId] = "CLOSING"
  /\ managerSockets' = [ managerSockets EXCEPT ![connectionId] = "CLOSED" ]
  /\ manager' = removeConnection(manager, connectionId)
  /\ ManagerFrame

\* the heartbeat callback (part_009 166-190) with performConnectionHealthCheck
\* (192-227); stale are the connections idle for more than ten minutes
Heartbeat(stale) ==
  /\ manager.heartbeatInterval
  /\ manager.connections # {}
  /\ LET unhealthy == { id \in manager.connections :
                          id \in stale \/ managerSockets[id] # "OPEN" }
     IN manager' = RemoveAll(manager, InOrder(unhealthy))
  /\ UNCHANGED managerSockets
  /\ ManagerFrame

\* shutdown (part_009 312-360) up to its return, and the continuation of
\* Promise.allSettled when no socket was open
Shutdown ==
  /\ manager.shutdown = "none"
  /\ LET timers == { id \in manager.connections : managerSockets[id] = "OPEN" }
     IN manager' = [ manager EXCEPT
                       !.heartbeatInterval = FALSE,
                       !.timers = timers,
                       !.connections = IF timers = {} THEN {} ELSE @,
                       !.shutdown = IF timers = {} THEN "done" ELSE "waiting" ]
  /\ UNCHANGED managerSockets
  /\ ManagerFrame

\* the one-second timers of shutdown fire (part_009 340-343), then the
\* continuation of Promise.allSettled runs (356-359)
ShutdownTimers ==
  /\ manager.shutdown = "waiting"
  /\ managerSockets' = [ id \in DOMAIN managerSockets |->
                           IF id \in manager.timers /\ managerSockets[id] = "OPEN"
                             THEN "CLOSING" ELSE managerSockets[id] ]
  /\ manager' = [ manager EXCEPT !.timers = {}, !.connections = {}, !.shutdown = "done" ]
  /\ ManagerFrame

\* the manager as constructed (part_009 8-21)
InitManager ==
  /\ store = << >> /\ databases = << >> /\ gtdDatabaseId = 0
  /\ CommandIdle
  /\ NoRace /\ NoSessions /\ NoRecorder /\ NoTasks
  /\ manager = [ connections |-> {},
                 stats |-> [ totalConnections |-> 0, activeConnections |-> 0 ],
                 heartbeatInterval |-> TRUE, timers |-> {}, shutdown |-> "none" ]
  /\ managerSockets = << >>

NextManager ==
  \/ HandleConnection
  \/ \E connectionId \in 1..MaxConnections : SocketClosing(connectionId)
  \/ \E connectionId \in 1..MaxConnections : CloseEvent(connectionId)
  \/ \E stale \in SUBSET (1..MaxConnections) : Heartbeat(stale)
  \/ Shutdown
  \/ ShutdownTimers

SpecManager == InitManager /\ [][NextManager]_vars

(***************************************************************************)
(* TaskService (mongoTaskService.ts) over the Task collection.  A date is  *)
(* a record of year, month and day of the month; calendarDay counts the    *)
(* days from FirstDay.  rollover counts the calls of rolloverToToday and     *)
(* holds the argument and the result of the latest call until something    *)
(* else happens (fresh); repeated marks a call that directly follows a     *)
(* call with the same argument.                                            *)
(***************************************************************************)
\* the first calendar day of a run; the run crosses from September to October
FirstDay == [ year |-> 2026, month |-> 9, date |-> 30 ]

\* the users whose tasks are stored
UserIds == { << "u", "1" >>, << "u", "2" >> }

\* TaskStatus (tasks.ts 4)
TaskStatus == { "pending", "in_progress", "done", "skipped" }

\* the days of a month (Date arithmetic)
DaysInMonth(year, month) ==
  IF month \in { 4, 6, 9, 11 } THEN 30
  ELSE IF month # 2 THEN 31
  ELSE IF year % 4 = 0 /\ (year % 100 # 0 \/ year % 400 = 0) THEN 29 ELSE 28

\* t.setDate(t.getDate() + 1) (helpers.ts 8)
NextDate(d) ==
  IF d.date < DaysInMonth(d.year, d.month) THEN [ d EXCEPT !.date = @ + 1 ]
  ELSE IF d.month < 12 THEN [ d EXCEPT !.month = @ + 1, !.date = 1 ]
  ELSE [ year |-> d.year + 1, month |-> 1, date |-> 1 ]

\* new Date() on the n-th calendar day of the run
RECURSIVE DateOf(_)
DateOf(n) == IF n <= 1 THEN FirstDay ELSE NextDate(DateOf(n - 1))

\* String(n) of a natural number
RECURSIVE NumberToString(_)
NumberToString(n) ==
  IF n < 10 THEN << Digits[n + 1] >>
  ELSE NumberToString(n \div 10) \o << Digits[(n % 10) + 1] >>

\* String.prototype.padStart(targetLength, "0")
RECURSIVE padStart(_, _)
padStart(s, targetLength) ==
  IF Len(s) >= targetLength THEN s ELSE padStart(<< "0" >> \o s, targetLength)

\* toISODate without the padding of month and day
toISODate_Unpadded(d) ==
  NumberToString(d.year) \o << "-" >> \o NumberToString(d.month)
    \o << "-" >> \o NumberToString(d.date)

\* toISODate (helpers.ts 3-4)
toISODate(d) ==
  NumberToString(d.year) \o << "-" >> \o padStart(NumberToString(d.month), 2)
    \o << "-" >> \o padStart(NumberToString(d.date), 2)

\* tomorrowISO (helpers.ts 6-10)
tomorrowISO(d) == toISODate(NextDate(d))

\* the code unit of a character of a date string
CharCode(c) == IF c = "-" THEN 45 ELSE 47 + (CHOOSE d \in 1..10 : Digits[d] = c)

\* a < b for two strings, as the store's $lt compares them
RECURSIVE StringLess(_, _)
StringLess(a, b) ==
  IF b = << >> THEN FALSE
  ELSE IF a = << >> THEN TRUE
  ELSE IF Head(a) # Head(b) THEN CharCode(Head(a)) < CharCode(Head(b))
  ELSE StringLess(Tail(a), Tail(b))

\* the query q of rolloverToToday (mongoTaskService.ts 57-63)
RolloverQuery(doc, today, userId) ==
  /\ StringLess(doc.planDate, today)
  /\ doc.status \in { "pending", "in_progress", "skipped" }
  /\ doc.archived # TRUE
  /\ Truthy(userId) => doc.userId = userId

\* the update of rolloverToToday (mongoTaskService.ts 65-69)
RolloverUpdate(doc, today) ==
  [ doc EXCEPT !.planDate = today, !.rolloverCount = @ + 1 ]

\* what TaskService leaves alone
TaskFrame == UNCHANGED << storeVars, commandVars, inFlight, sessionVars, recorderVars,
                          managerVars >>

\* something other than rolloverToToday has happened
NotFresh ==
  [ calls |-> rollover.calls, userId |-> Undef, modifiedCount |-> 0, repeated |-> FALSE,
    fresh |-> FALSE ]

\* createTask (mongoTaskService.ts 6-22); planDate is absent or a date string
CreateTask(userId, planDate) ==
  /\ Len(taskDocs) < MaxTasks
  /\ taskDocs' = Append(taskDocs,
                   [ userId |-> userId, status |-> "pending",
                     planDate |-> IF planDate = Undef THEN toISODate(DateOf(calendarDay))
                                  ELSE planDate,
                     rolloverCount |-> 0, archived |-> FALSE ])
  /\ rollover' = NotFresh
  /\ UNCHANGED calendarDay
  /\ TaskFrame

\* setStatus (mongoTaskService.ts 35-37)
SetStatus(id, status) ==
  /\ id \in DOMAIN taskDocs
  /\ taskDocs[id].status # status
  /\ taskDocs' = [ taskDocs EXCEPT ![id].status = status ]
  /\ rollover' = NotFresh
  /\ UNCHANGED calendarDay
  /\ TaskFrame

\* skipTask (mongoTaskService.ts 39-41)
SkipTask(id) ==
  /\ id \in DOMAIN taskDocs
  /\ taskDocs' = [ taskDocs EXCEPT ![id].status = "skipped",
                                   ![id].planDate = tomorrowISO(DateOf(calendarDay)) ]
  /\ rollover' = NotFresh
  /\ UNCHANGED calendarDay
  /\ TaskFrame

\* updateTask(id, { archived: true }) (mongoTaskService.ts 24-33)
ArchiveTask(id) ==
  /\ id \in DOMAIN taskDocs
  /\ ~taskDocs[id].archived
  /\ taskDocs' = [ taskDocs EXCEPT ![id].archived = TRUE ]
  /\ rollover' = NotFresh
  /\ UNCHANGED calendarDay
  /\ TaskFrame

\* midnight passes
NextDay ==
  /\ calendarDay < MaxDays
  /\ calendarDay' = calendarDay + 1
  /\ rollover' = NotFresh
  /\ UNCHANGED taskDocs
  /\ TaskFrame

\* rolloverToToday (mongoTaskService.ts 56-71)
RolloverToToday(userId) ==
  /\ rollover.calls < MaxRollovers
  /\ LET today == toISODate(DateOf(calendarDay))
         matched == { id \in DOMAIN taskDocs : RolloverQuery(taskDocs[id], today, userId) }
     IN /\ taskDocs' = [ id \in DOMAIN taskDocs |->
                           IF id \in matched THEN RolloverUpdate(taskDocs[id], today)
                           ELSE taskDocs[id] ]
        /\ rollover' = [ calls |-> rollover.calls + 1, userId |-> userId,
                         modifiedCount |-> Cardinality(matched),
                         repeated |-> rollover.fresh /\ rollover.userId = userId,
                         fresh |-> TRUE ]
  /\ UNCHANGED calendarDay
  /\ TaskFrame

\* the date strings a caller passes as planDate
PlanDates == { toISODate(DateOf(n)) : n \in 1..MaxDays }

\* an empty Task collection on the first day
InitRollover ==
  /\ store = << >> /\ databases = << >> /\ gtdDatabaseId = 0
  /\ CommandIdle
  /\ NoRace /\ NoSessions /\ NoRecorder /\ NoManager
  /\ taskDocs = << >>
  /\ calendarDay = 1
  /\ rollover = [ calls |-> 0, userId |-> Undef, modifiedCount |-> 0, repeated |-> FALSE,
                  fresh |-> FALSE ]

NextRollover ==
  \/ \E userId \in UserIds, planDate \in PlanDates \cup { Undef } : CreateTask(userId, planDate)
  \/ \E id \in 1..MaxTasks, status \in TaskStatus : SetStatus(id, status)
  \/ \E id \in 1..MaxTasks : SkipTask(id)
  \/ \E id \in 1..MaxTasks : ArchiveTask(id)
  \/ NextDay
  \/ \E userId \in UserIds \cup { Undef } : RolloverToToday(userId)

SpecRollover == InitRollover /\ [][NextRollover]_vars
(***************************************************************************)
(* Properties                                                              *)
(***************************************************************************)
KnownActions == { "create", "complete", "update", "delete", "list" }

UnclearMessage == "I didn't understand. Try: 'add task', 'complete task', 'show tasks'."

\* the handler of the command has run
Executed == pc = "executed" \/ (pc = "responded" /\ response.code = 200)

\* a store call of the handler failed
StoreFailed ==
  result.template \in { "Failed to add task: ${error}", "Failed to complete task",
                        "Failed to update task", "Failed to delete task",
                        "Failed to list tasks" }

\* C1: whenever the final intent's action is unclear (or any value other than
\* create, complete, update, delete, list), the command ends with the canned
\* clarification message and no store call of any kind is made for it.
C1_UnclearMakesNoStoreCall ==
  ( /\ pc \in { "dispatch", "executed", "responded" }
    /\ intent.action \notin KnownActions
    /\ intent.action # "none" )
  => /\ storeCalls = { }
     /\ pc = "responded" =>
          response.code = 200 /\ response.result.template = UnclearMessage

\* C2: a complete or delete intent without target is answered with the question
\* "Which task do you want to complete/delete?" and makes no store query and
\* no store mutation (shown already by the commands whose store calls succeed).
C2_NoTargetAsksWhichTask ==
  ( /\ Executed
    /\ ~StoreFailed
    /\ intent.action \in { "complete", "delete" }
    /\ ~Truthy(intent.targetTodo) )
  => /\ result.template = IF intent.action = "complete"
                            THEN "Which task do you want to complete?"
                            ELSE "Which task do you want to delete?"
     /\ storeCalls \cap { "databases.query", "pages.create", "pages.update" } = { }
     /\ store = storeBefore

\* C3: for an update intent a store update is issued only if both the target and
\* the replacement text are present; if either is missing the answer is a
\* clarification message, no success is reported and nothing is mutated (shown
\* already by the commands whose store calls succeed).
C3_UpdateNeedsTargetAndNewText ==
  ( Executed /\ ~StoreFailed /\ intent.action = "update" )
  => LET both == Truthy(intent.targetTodo) /\ Truthy(intent.newText)
     IN /\ "pages.update" \in storeCalls => both
        /\ ~both => /\ ~result.success
                    /\ result.template = "Which task do you want to update?"
                    /\ store = storeBefore

\* the X of a text '<bought|finished|sent> X', trimmed; empty when the text has
\* no such form
PastTenseObject(text) ==
  LET verbs == { v \in { Lit.bought, Lit.finished, Lit.sent } :
                   /\ startsWith(text, v)
                   /\ Len(text) > Len(v)
                   /\ IsSpace(text[Len(v) + 1]) }
  IN IF verbs = { } THEN << >>
     ELSE trim(SubSeq(text, Len(CHOOSE v \in verbs : TRUE) + 1, Len(text)))

\* C4: every text '<bought|finished|sent> X' with non-empty X is classified by
\* Tier 1 as complete with targetTask X (trimmed) and confidence at least 0.8.
C4_PastTenseIsComplete ==
  ( pc # "transcribed" /\ PastTenseObject(commandText) # << >> )
  => /\ intent.action = "complete"
     /\ intent.targetTodo = PastTenseObject(commandText)
     /\ intent.confidence >= 8

\* the text minus its leading add, create, new or make, trimmed; Undef when the
\* text does not begin with one of them followed by whitespace and some text
AfterCreateVerb(text) ==
  LET verbs == { v \in { Lit.add, Lit.create, Lit.new, Lit.make } :
                   /\ startsWith(toLowerCase(text), v)
                   /\ Len(text) > Len(v) + 1
                   /\ IsSpace(text[Len(v) + 1]) }
  IN IF verbs = { } THEN Undef
     ELSE trim(SubSeq(text, Len(CHOOSE v \in verbs : TRUE) + 1, Len(text)))

\* the text holds a trigger of the completion, deletion, update or list rules
HasEarlierTrigger(text) ==
  LET lowerText == trim(toLowerCase(text))
  IN \/ IsCompleteTrigger(lowerText)
     \/ IsDeleteTrigger(lowerText)
     \/ IsUpdateTrigger(lowerText)
     \/ IsListTrigger(lowerText)

\* C5 as stated: every text that begins with add, create, new or make followed
\* by whitespace and some text is classified by Tier 1 as create with taskText
\* the text minus the leading verb (trimmed), without the generative fallback.
C5_CreateVerbAlwaysCreates ==
  ( pc # "transcribed" /\ AfterCreateVerb(commandText) # Undef )
  => /\ intent.action = "create"
     /\ intent.todoText = AfterCreateVerb(commandText)
     /\ pc # "gemini"

\* C5 as amended: the same, for the texts that hold no trigger of the
\* completion, deletion, update and list rules, which are checked first; the
\* confidence is 0.9.
C5_CreateVerbCreatesUnlessEarlierRule ==
  ( /\ pc # "transcribed"
    /\ AfterCreateVerb(commandText) # Undef
    /\ ~HasEarlierTrigger(commandText) )
  => /\ intent.action = "create"
     /\ intent.todoText = AfterCreateVerb(commandText)
     /\ intent.confidence = 9
     /\ pc # "gemini"

C5_Witness ==
  /\ pc = "classified"
  /\ AfterCreateVerb(commandText) = << "M","i","l","k" >>
  /\ ~HasEarlierTrigger(commandText)
  /\ intent.action = "create"

\* no keyword or template rule of Tier 1 matches the text
NoRuleMatches(text) ==
  /\ ~HasEarlierTrigger(text)
  /\ PastTenseMatch(text) = Undef
  /\ ~(IsCreateTrigger(trim(toLowerCase(text))) /\ CreateMatch(text) # Undef)

\* C6: when no Tier-1 keyword or template rule matches, the classification is
\* create with taskText the whole text and confidence 0.6 if the trimmed text
\* is longer than 2 characters, and unclear otherwise; "" and "a" are unclear.
C6_DefaultCreateOrUnclear ==
  /\ ( pc # "transcribed" /\ NoRuleMatches(commandText) )
     => IF Len(trim(commandText)) > 2
          THEN /\ intent.action = "create"
               /\ intent.todoText = commandText
               /\ intent.confidence = 6
          ELSE intent.action = "unclear"
  /\ ( pc # "transcribed" /\ commandText \in { << >>, << "a" >> } )
     => intent.action = "unclear"

C6_Witness ==
  /\ pc = "classified"
  /\ NoRuleMatches(commandText)
  /\ Len(commandText) > Len(trim(commandText))
  /\ Len(trim(commandText)) = 3
  /\ intent.action = "create"
  /\ intent.confidence = 6

\* C7: when the model call fails or gives no parseable JSON, the classifier
\* falls back to the keyword heuristic and, when that matches nothing, the
\* intent is unclear with a confidence between 0.1 and 0.3, so the command ends
\* with the clarification message.
C7_ModelFailureEndsInClarification ==
  ( geminiReply = GeminiError /\ FallbackIntent(commandText).action = "unclear" )
  => /\ intent.action = "unclear"
     /\ intent.confidence \in 1..3
     /\ pc = "responded" =>
          response.code = 200 /\ response.result.template = UnclearMessage

\* the numbering the list command displays for the incomplete tasks
ListNumbering(pages, db) ==
  LET todoTasks == SelectSeq(QuerySorted(pages, db), LAMBDA t : t.status = "Todo")
  IN [ k \in 1..Len(todoTasks) |-> todoTasks[k].id ]

\* the element of a numbering that first, last or a 1-based number names, 0
\* when the number is out of range
ElementAt(token, numbering) ==
  IF token = Lit.first THEN (IF Len(numbering) > 0 THEN numbering[1] ELSE 0)
  ELSE IF token = Lit.last THEN (IF Len(numbering) > 0 THEN numbering[Len(numbering)] ELSE 0)
  ELSE IF Number(token) >= 1 /\ Number(token) <= Len(numbering) THEN numbering[Number(token)]
  ELSE 0

\* the target is 'first', 'last' or a number
IsPositionToken(token) ==
  token = Lit.first \/ token = Lit.last \/ (IsNumber(token) /\ trim(token) # << >>)

\* C8: a complete command whose target is first, last or a 1-based number n
\* completes the corresponding element of the incomplete tasks ordered by
\* priority, the numbering the list command displays; when n is out of range
\* no task is resolved and no task is mutated.
C8_PositionFollowsListNumbering ==
  ( /\ pc = "executed"
    /\ intent.action = "complete"
    /\ IsPositionToken(CompleteSearchText(intent, commandText))
    /\ ~StoreFailed )
  => LET expected == ElementAt(CompleteSearchText(intent, commandText),
                               ListNumbering(storeBefore, gtdDatabaseId))
     IN IF expected = 0
          THEN result.taskId = 0 /\ store = storeBefore
          ELSE /\ result.taskId = expected
               /\ store = [ k \in 1..Len(storeBefore) |->
                              IF storeBefore[k].id = expected
                                THEN [ storeBefore[k] EXCEPT !.status = "Done" ]
                                ELSE storeBefore[k] ]

\* the words of a string: its non-empty pieces between spaces
Words(s) == { split(s)[k] : k \in 1..Len(split(s)) } \ { << >> }

\* the steps of the title lookup, for a task and a query
ExactStep(t, q) == toLowerCase(t.title) = toLowerCase(q)

ContainStep(t, q) ==
  \/ includes(toLowerCase(t.title), toLowerCase(q))
  \/ includes(toLowerCase(q), toLowerCase(t.title))

\* the title and the query share a word
SharedWordStep(t, q) == Words(toLowerCase(t.title)) \cap Words(toLowerCase(q)) # { }

\* a piece of the query between two spaces, possibly empty, occurs in the title
WordInTitleStep(t, q) ==
  \E k \in 1..Len(split(toLowerCase(q))) :
    includes(toLowerCase(t.title), split(toLowerCase(q))[k])

\* found is what a lookup in three steps gives: the first task that matches at
\* the earliest step that has a match, 0 when no step matches
IsLookupResult(found, tasks, q, Third(_, _)) ==
  LET step(t) == IF ExactStep(t, q) THEN 1
                 ELSE IF ContainStep(t, q) THEN 2
                 ELSE IF Third(t, q) THEN 3
                 ELSE 4
  IN IF \A k \in 1..Len(tasks) : step(tasks[k]) = 4 THEN found = 0
     ELSE \E k \in 1..Len(tasks) :
            /\ tasks[k].id = found
            /\ step(tasks[k]) # 4
            /\ \A j \in 1..Len(tasks) : step(tasks[j]) >= step(tasks[k])
            /\ \A j \in 1..(k - 1) : step(tasks[j]) > step(tasks[k])

\* a complete command has looked its free-text target up, the store answering
FreeTextLookupDone ==
  /\ pc = "executed"
  /\ intent.action = "complete"
  /\ ~IsPositional(CompleteSearchText(intent, commandText))
  /\ ~StoreFailed

\* C9 as stated: the lookup tries exact title equality, then containment in
\* either direction, then any shared word, and gives the first task matching at
\* the earliest step that has a match, or not-found.
C9_LookupExactContainSharedWord ==
  FreeTextLookupDone
  => IsLookupResult(result.taskId, QueryTodo(storeBefore, gtdDatabaseId),
                    CompleteSearchText(intent, commandText), SharedWordStep)

\* C9 as amended: the third step is not a shared word but a piece of the query
\* between spaces (possibly empty) occurring anywhere in the title.
C9_LookupExactContainWordInTitle ==
  FreeTextLookupDone
  => IsLookupResult(result.taskId, QueryTodo(storeBefore, gtdDatabaseId),
                    CompleteSearchText(intent, commandText), WordInTitleStep)

\* a task matching only by containment is passed over for a later task whose
\* title equals the query
C9_Witness ==
  /\ FreeTextLookupDone
  /\ result.success
  /\ LET tasks == QueryTodo(storeBefore, gtdDatabaseId)
         q == CompleteSearchText(intent, commandText)
     IN \E k \in 1..Len(tasks) :
          /\ tasks[k].id = result.taskId
          /\ ExactStep(tasks[k], q)
          /\ \E j \in 1..(k - 1) : ContainStep(tasks[j], q)

\* the task of the latest create is still incomplete in the collection, under
\* the text it was created with, and the complete command's target is a word or
\* substring of that text
CompletesAfterCreate ==
  /\ pc = "executed"
  /\ intent.action = "complete"
  /\ ~StoreFailed
  /\ lastCreated.id # 0
  /\ LET t == Page(storeBefore, lastCreated.id)
     IN /\ t.status = "Todo"
        /\ ~t.archived
        /\ t.title = lastCreated.text
        /\ includes(toLowerCase(t.title),
                    toLowerCase(CompleteSearchText(intent, commandText)))

\* the created task is completed and named in the message
CreatedTaskCompleted ==
  /\ result.success
  /\ result.taskId = lastCreated.id
  /\ Page(store, lastCreated.id).status = "Done"
  /\ result.template = "Completed \"${taskName}\""
  /\ result.arg = lastCreated.text

\* C10 as stated: after a create stored a task with text T, a complete command
\* whose target is a word or substring of T resolves to the created task and
\* marks it done, with a message containing 'Completed' and the task's title.
C10_CompleteFindsCreatedTask == CompletesAfterCreate => CreatedTaskCompleted

\* the earliest step of the lookup at which a task matches the query
LookupStep(t, q) ==
  IF ExactStep(t, q) THEN 1
  ELSE IF ContainStep(t, q) THEN 2
  ELSE IF WordInTitleStep(t, q) THEN 3
  ELSE 4

\* no other incomplete task matches the target at the step the created task
\* matches at, or at an earlier one
NoRivalTask ==
  LET q == CompleteSearchText(intent, commandText)
      tasks == QueryTodo(storeBefore, gtdDatabaseId)
  IN \A k \in 1..Len(tasks) :
       tasks[k].id # lastCreated.id
         => LookupStep(tasks[k], q) > LookupStep(Page(storeBefore, lastCreated.id), q)

\* C10 as amended: the same, provided the target is not positional (first, last
\* or a number) and no other incomplete task matches it at the same or an
\* earlier step of the lookup than the created task.
C10_CompleteFindsCreatedTaskUnlessRival ==
  ( /\ CompletesAfterCreate
    /\ ~IsPositional(CompleteSearchText(intent, commandText))
    /\ NoRivalTask )
  => CreatedTaskCompleted

\* 'buy milk' was created beside another incomplete task and a complete command
\* with target 'milk' has completed it
C10_Witness ==
  /\ CompletesAfterCreate
  /\ ~IsPositional(CompleteSearchText(intent, commandText))
  /\ NoRivalTask
  /\ Len(QueryTodo(storeBefore, gtdDatabaseId)) > 1
  /\ lastCreated.text = << "b","u","y"," ","m","i","l","k" >>
  /\ CompleteSearchText(intent, commandText) = << "m","i","l","k" >>
  /\ CreatedTaskCompleted

\* the tasks whose page the command changed
ChangedTasks ==
  { storeBefore[k].id : k \in { j \in 1..Len(storeBefore) : store[j] # storeBefore[j] } }

\* C11: the target of an update or delete command is resolved the way the
\* target of a complete command is (a positional token by position, free text
\* by the title lookup): for the same store and target the command acts on the
\* task a complete command would resolve, and on none when that resolves none.
C11_UpdateDeleteResolveLikeComplete ==
  ( /\ pc = "executed"
    /\ intent.action \in { "update", "delete" }
    /\ ~StoreFailed
    /\ Truthy(intent.targetTodo)
    /\ toLowerCase(intent.targetTodo) # Lit.all
    /\ intent.action = "update" => Truthy(intent.newText) )
  => LET expected == ResolveCompleteTarget(intent.targetTodo, storeBefore, gtdDatabaseId)
     IN IF expected = 0
          THEN ~result.success /\ store = storeBefore
          ELSE result.success /\ ChangedTasks = { expected }

\* the complete command names, by its exact title, a task that is done already
\* and no task that is still to do
NamesCompletedTask ==
  LET q == CompleteSearchText(intent, commandText)
      tasks == QueryAll(storeBefore, gtdDatabaseId)
  IN /\ \E k \in 1..Len(tasks) : tasks[k].status = "Done" /\ ExactStep(tasks[k], q)
     /\ \A k \in 1..Len(tasks) : tasks[k].status = "Todo" => ~ExactStep(tasks[k], q)

\* C12: completing the same task twice is idempotent: the second complete
\* command reports no error, the task stays done and the store after it equals
\* the store after the first (no other task changes).
C12_CompleteTwiceIsIdempotent ==
  ( /\ pc = "executed"
    /\ intent.action = "complete"
    /\ ~StoreFailed
    /\ NamesCompletedTask )
  => /\ result.success
     /\ store = storeBefore

\* C13: every task is created with status Todo, and once a task is Done no
\* create, complete, update, delete or list command sets it back to Todo.
C13_DoneStaysDone ==
  [][ /\ Len(store') >= Len(store)
      /\ \A k \in 1..Len(store) :
           store[k].status = "Done" => store'[k].status = "Done"
      /\ \A k \in (Len(store) + 1)..Len(store') : store'[k].status = "Todo" ]_vars

\* an update or delete command has changed a task that was done, which is
\* still done
C13_Witness ==
  /\ pc = "executed"
  /\ intent.action \in { "update", "delete" }
  /\ \E k \in 1..Len(storeBefore) :
       /\ storeBefore[k].status = "Done"
       /\ store[k] # storeBefore[k]
       /\ store[k].status = "Done"

\* C14: an update command changes only the title of the one resolved task, to
\* the replacement text; that task's status, priority, category and date, and
\* every field of every other task, are unchanged.
C14_UpdateChangesOnlyTitle ==
  ( pc = "executed" /\ intent.action = "update" )
  => /\ Len(store) = Len(storeBefore)
     /\ \A k \in 1..Len(store) :
          \/ store[k] = storeBefore[k]
          \/ /\ store[k].id = result.taskId
             /\ Truthy(intent.newText)
             /\ store[k] = [ storeBefore[k] EXCEPT !.title = intent.newText ]
     /\ ( result.success /\ Truthy(intent.newText) )
          => Page(store, result.taskId).title = intent.newText

\* an update has retitled one task of a collection that holds other tasks
C14_Witness ==
  /\ pc = "executed"
  /\ intent.action = "update"
  /\ result.success
  /\ Len(QueryAll(store, gtdDatabaseId)) > 1
  /\ ChangedTasks = { result.taskId }
  /\ Page(store, result.taskId).title = intent.newText
  /\ Page(storeBefore, result.taskId).title # intent.newText

\* a delete command whose target is the literal 'all' has run, the store
\* answering
DeleteAllDone ==
  /\ pc = "executed"
  /\ intent.action = "delete"
  /\ Truthy(intent.targetTodo)
  /\ toLowerCase(intent.targetTodo) = Lit.all
  /\ ~StoreFailed

\* every task of the collection is archived and the result reports as many
\* tasks as the collection held
AllArchivedAndCounted ==
  /\ QueryAll(store, gtdDatabaseId) = << >>
  /\ result.success
  /\ result.template = "Deleted all ${tasksToDelete.length} tasks"
  /\ result.count = Len(QueryAll(storeBefore, gtdDatabaseId))

C16_StoreFailureIsACommandResult ==
  ( pc = "responded" /\ storeCalls # { } )
  => /\ response.code = 200
     /\ response.result = result
     /\ result # NoResult
     /\ StoreFailed => ~result.success

\* C16 as amended: a failure of a store call inside a handler (create, find,
\* complete, update, delete, list) is reported as a command result with
\* success false and a message, in a response with status 200; a failure while
\* ensuring the collection is answered with the error response 500 'Failed to
\* setup database', before any handler has run.
C16_HandlerFailureIsAResultEnsureFailureIsAnError ==
  ( pc = "responded" /\ storeCalls # { } )
  => IF response.code = 200
       THEN /\ response.result = result
            /\ result # NoResult
            /\ gtdDatabaseId # 0
            /\ StoreFailed => ~result.success
       ELSE /\ response = ErrorResponse(500, "Failed to setup database")
            /\ result = NoResult
            /\ gtdDatabaseId = 0
            /\ storeCalls \subseteq { "search", "databases.create" }
            /\ store = storeBefore

\* a store call of a handler failed and the command was answered with a result
C16_Witness ==
  /\ pc = "responded"
  /\ StoreFailed
  /\ response.code = 200
  /\ ~response.result.success

\* C17: when an audio reply was asked for and speech synthesis fails, the
\* command returns the success flag, the result and the database id it returns
\* without synthesis, with an empty audio field; over the WebSocket no audio
\* message is sent, and the command is not turned into a failure.
C17_SynthesisFailureKeepsResult ==
  ( pc = "responded" /\ synthesis = "failed" )
  => /\ response.code = 200
     /\ response.success
     /\ response.error = "none"
     /\ response.result = result
     /\ response.databaseId = gtdDatabaseId
     /\ response.audioResponse \in { "empty", "absent" }
     /\ transport = "ws" => socketMessages = << "transcription", "intent", "result" >>

\* a command that succeeded was answered after its synthesis failed
C17_Witness ==
  /\ pc = "responded"
  /\ synthesis = "failed"
  /\ result.success
  /\ response.result = result

\* C18: whenever a command yields no usable text (no text and no audio, or
\* audio whose transcription is empty or fails), the command ends with the
\* failure message "No command provided" and neither the classifier nor the
\* task store is invoked.
C18_NoTextEndsInNoCommandProvided ==
  ( pc = "responded" /\ commandText = << >> )
  => /\ response.code = 400
     /\ response.error = "No command provided"
     /\ intent = NoIntent
     /\ ~geminiCalled
     /\ storeCalls = { }

\* the order of the stages of a command
StageOrder ==
  { << "idle", "transcribed" >>, << "idle", "responded" >>,
    << "responded", "transcribed" >>, << "responded", "responded" >>,
    << "transcribed", "gemini" >>, << "transcribed", "classified" >>,
    << "gemini", "classified" >>,
    << "classified", "dispatch" >>, << "classified", "responded" >>,
    << "dispatch", "executed" >>,
    << "executed", "responded" >> }

\* the result and error messages sent on the socket for the command
TerminalMessages ==
  { k \in 1..Len(socketMessages) : socketMessages[k] \in { "result", "error" } }

\* C19: every command passes through received, transcribed, classified,
\* executed in that order (or exits early) and reaches responded once: one
\* response is produced per command, and over the WebSocket each voice_command
\* yields exactly one terminal message, a result or an error, never both.
C19_OneResponsePerCommand ==
  /\ [][ /\ pc' # pc => << pc, pc' >> \in StageOrder
         /\ response' # response =>
              \/ pc' = "responded" /\ (pc # "responded" \/ nCommands' = nCommands + 1)
              \/ nCommands' = nCommands + 1 /\ response' = NoResponse ]_vars
  /\ []( ( pc = "responded" /\ transport = "ws" ) => Cardinality(TerminalMessages) = 1 )

\* caller c begins a call of ensureGTDDatabase in this step
Begins(c) == ensureCalls'[c].n = ensureCalls[c].n + 1

\* caller c makes a store call in this step
MakesStoreCall(c) == ensureCalls'[c].calls # ensureCalls[c].calls /\ ~Begins(c)

\* the call of caller c ends in this step, returning or throwing
Ends(c, how) == ensureCalls'[c].pc = how /\ ensureCalls[c].pc # how

\* a failed resolution leaves the cache as it was
FailureKeepsCache ==
  \A c \in Callers : Ends(c, "threw") => gtdDatabaseId' = gtdDatabaseId

\* C20 as stated: the collection id is cached after its first successful
\* resolution; from then on every call returns that id without any store
\* search or create, and the cached id is never changed or cleared; a failed
\* resolution leaves the cache empty.
C20_CachedIdNeverChanges ==
  [][ /\ gtdDatabaseId # 0 =>
           /\ gtdDatabaseId' = gtdDatabaseId
           /\ \A c \in Callers :
                /\ ~MakesStoreCall(c)
                /\ Ends(c, "returned") => ensureCalls'[c].returned = gtdDatabaseId
      /\ \A c \in Callers :
           Ends(c, "returned") => gtdDatabaseId' = ensureCalls'[c].returned
      /\ FailureKeepsCache ]_vars

\* C20 as amended: a call that begins while an id is cached returns that id at
\* once, without any store search or create, and a cached id is never cleared;
\* a failed resolution leaves the cache as it was.  A call that began while the
\* cache was empty still searches, and creates when its search found nothing,
\* after another call has filled the cache, and overwrites the cached id with
\* the id it resolved: only such a call changes the cache.
C20_CachedIdServesLaterCalls ==
  [][ /\ gtdDatabaseId # 0 =>
           /\ gtdDatabaseId' # 0
           /\ \A c \in Callers :
                Begins(c) => /\ ensureCalls'[c].pc = "returned"
                             /\ ensureCalls'[c].returned = gtdDatabaseId
                             /\ ensureCalls'[c].calls = { }
                             /\ gtdDatabaseId' = gtdDatabaseId
      /\ gtdDatabaseId' # gtdDatabaseId =>
           \E c \in Callers : /\ Ends(c, "returned")
                               /\ ensureCalls[c].startedWith = 0
                               /\ ensureCalls'[c].returned = gtdDatabaseId'
      /\ FailureKeepsCache ]_vars

\* a call that began with a cached id has returned it without a store call,
\* after the first resolution created the collection
C20_Witness ==
  \E c \in Callers :
    /\ ensureCalls # << >>
    /\ ensureCalls[c].pc = "returned"
    /\ ensureCalls[c].startedWith # 0
    /\ ensureCalls[c].returned = gtdDatabaseId
    /\ ensureCalls[c].calls = { }
    /\ Len(databases) > 0

\* the Tier-1 families whose trigger the text matches, numbered in the order
\* completion, deletion, update, list, creation; a past-tense completion
\* template is a trigger of the completion family
MatchingFamilies(text) ==
  LET lowerText == trim(toLowerCase(text))
  IN { f \in 1..5 :
         \/ f = 1 /\ (IsCompleteTrigger(lowerText) \/ PastTenseMatch(text) # Undef)
         \/ f = 2 /\ IsDeleteTrigger(lowerText)
         \/ f = 3 /\ IsUpdateTrigger(lowerText)
         \/ f = 4 /\ IsListTrigger(lowerText)
         \/ f = 5 /\ IsCreateTrigger(lowerText) }

\* the action of each family
FamilyAction == << "complete", "delete", "update", "list", "create" >>

\* C21: the Tier-1 families are evaluated in the order completion, deletion,
\* update, list, creation, and the first family whose trigger matches alone
\* determines the action.
C21_FirstMatchingFamilyDecides ==
  ( pc # "transcribed" /\ MatchingFamilies(commandText) # { } )
  => intent.action = FamilyAction[Min(MatchingFamilies(commandText))]

\* the tasks the command archived
ArchivedByCommand ==
  { storeBefore[k].id : k \in { j \in 1..Len(storeBefore) :
                                   ~storeBefore[j].archived /\ store[j].archived } }

\* a delete command whose target is not the literal 'all' has run
DeleteOneDone ==
  /\ pc = "executed"
  /\ intent.action = "delete"
  /\ Truthy(intent.targetTodo)
  /\ toLowerCase(intent.targetTodo) # Lit.all

\* C24: a delete command whose target is not 'all' archives exactly one task,
\* the task named in its success message; no other task is archived by it.
C24_DeleteArchivesOnlyTheNamedTask ==
  DeleteOneDone
  => IF result.success
       THEN \E k \in 1..Len(storeBefore) :
              /\ ArchivedByCommand = { storeBefore[k].id }
              /\ result.arg = storeBefore[k].title
       ELSE ArchivedByCommand = { }

\* C25: when a delete command reports 'Failed to delete task', the store is
\* unchanged: no task has been archived by that command, including when only
\* some of the parallel archive calls failed.
C25_FailedDeleteChangesNothing ==
  ( pc = "executed" /\ intent.action = "delete"
    /\ result.template = "Failed to delete task" )
  => store = storeBefore

\* the collections created by the commands in flight
CreatedByCommands ==
  { inFlight[c].createdDatabase : c \in Callers } \ { 0 }

\* C22: when two commands run ensureGTDDatabase concurrently while the cache
\* is empty, at most one collection is created by each of them; once a command
\* has resolved the collection the cache holds the id of an existing
\* collection; and each command's task operation is applied to the collection
\* whose id the command reports in its response.
C22_RacingCommandsUseTheCollectionTheyReport ==
  /\ Len(databases) <= 2
  /\ \A c \in Callers :
       inFlight[c].pc \in { "handler", "responded" } /\ inFlight[c].code # 500
         => /\ gtdDatabaseId \in { databases[k] : k \in 1..Len(databases) }
            /\ inFlight[c].databaseId \in { databases[k] : k \in 1..Len(databases) }
  /\ \A c \in Callers :
       inFlight[c].pc = "responded" /\ inFlight[c].code = 200
         => /\ inFlight[c].reported = inFlight[c].usedDatabase
            /\ inFlight[c].reported = inFlight[c].databaseId
  /\ \A k \in 1..Len(store) :
       \E c \in Callers : /\ inFlight[c].action = "create"
                          /\ inFlight[c].pc = "responded"
                          /\ inFlight[c].reported = store[k].db

\* both commands found the cache empty and created a collection each; both
\* have answered, each reporting the collection its task was created in
C22_Witness ==
  /\ Cardinality(CreatedByCommands) = 2
  /\ \A c \in Callers : /\ inFlight[c].pc = "responded"
                        /\ inFlight[c].code = 200
                        /\ inFlight[c].action = "create"
                        /\ inFlight[c].reported = inFlight[c].createdDatabase
  /\ { store[k].db : k \in 1..Len(store) } = CreatedByCommands

\* C23: the buffered chunks of a session are discarded on disconnect and
\* after successful processing, so that after a successful stop or process
\* neither a second stop or process message nor the close of the connection
\* sends the same chunks through the pipeline again.
C23_AudioFlushedAtMostOnce ==
  /\ \A i \in 1..Len(flushed) : ~flushed[i].repeats
  /\ \A c \in Conns :
       ( wsConnections[c].state = "closed"
         /\ \A i \in Running : flushed[i].conn # c )
       => \A id \in DOMAIN SessionMap(wsConnections[c].route) :
            SessionMap(wsConnections[c].route)[id] # c

\* the session of each open connection is its own and holds its own audio
OwnSession(c) ==
  /\ SessionOf(c) = c
  /\ \A k \in 1..Len(sessionObjects[c].audioChunks) :
       sessionObjects[c].audioChunks[k][1] = c

\* C29: voice sessions of distinct connections are isolated: the chunks
\* received on a connection are buffered in and processed from its own
\* session only, and closing a connection never removes or alters the session
\* of another open connection, even when two connections are opened at the
\* same clock instant.
C29_SessionsAreIsolated ==
  /\ \A c \in Conns : wsConnections[c].state = "open" => OwnSession(c)
  /\ \A i \in 1..Len(flushed) :
       \A k \in 1..Len(flushed[i].audio) : flushed[i].audio[k][1] = flushed[i].conn

\* C26: a start_recording message received while a recording is in progress
\* is rejected with an error and leaves the recording flag, the buffer and the
\* start time as they were; audio chunks are appended to the buffer only
\* while a recording is in progress.
C26_StartWhileRecordingIsRejected ==
  [][ /\ ( client'.starts = client.starts + 1 /\ handler.isRecording )
         => /\ handler' = handler
            /\ client'.lastMessage = "error"
      /\ Len(handler'.audioBuffer) > Len(handler.audioBuffer) => handler.isRecording ]_vars

\* C27: in EnhancedVoiceWebSocketHandler, once recording_stopped or
\* recording_cancelled has been sent for a recording, no realtime_transcript
\* is sent to the client until the next recording_started.
C27_NoTranscriptAfterStop ==
  handler.kind = "enhanced"
  => ~( /\ Len(client.log) = 2
        /\ client.log[1] \in { "recording_stopped", "recording_cancelled" }
        /\ client.log[2] = "realtime_transcript" )

\* C28: in EnhancedWebSocketManager, stats.activeConnections equals the
\* number of entries in the connections map in every reachable state.
C28_ActiveConnectionsCountsTheMap ==
  manager # << >> => manager.stats.activeConnections = Cardinality(manager.connections)

\* the call of rolloverToToday a step makes, if any
RolloverCalled == rollover'.calls = rollover.calls + 1

\* doc is planned for a calendar day before the current one
PlannedBeforeToday(doc) ==
  \E n \in 1..(calendarDay - 1) : doc.planDate = toISODate(DateOf(n))

\* doc is not archived, not done and planned before today
Overdue(doc) ==
  /\ ~doc.archived
  /\ doc.status \in { "pending", "in_progress", "skipped" }
  /\ PlannedBeforeToday(doc)

\* a call changes exactly the tasks of the set due: each gets planDate =
\* today and one more rollover, the others stay, and the call returns the
\* size of the set
ChangesExactly(due) ==
  /\ DOMAIN taskDocs' = DOMAIN taskDocs
  /\ \A id \in DOMAIN taskDocs :
       taskDocs'[id] =
         IF id \in due
           THEN [ taskDocs[id] EXCEPT !.planDate = toISODate(DateOf(calendarDay)),
                                      !.rolloverCount = @ + 1 ]
           ELSE taskDocs[id]
  /\ rollover'.modifiedCount = Cardinality(due)

\* C30 as stated: rolloverToToday changes exactly the non-archived tasks
\* with status pending, in_progress or skipped whose planDate is before
\* today, and returns their number; a second call on the same day changes
\* no task and returns 0.
C30_RolloverChangesExactlyTheOverdueTasks ==
  [][ RolloverCalled =>
        /\ ChangesExactly({ id \in DOMAIN taskDocs : Overdue(taskDocs[id]) })
        /\ rollover.fresh => rollover'.modifiedCount = 0 /\ taskDocs' = taskDocs ]_vars

\* C30, amended: rolloverToToday(userId) changes exactly the overdue tasks
\* of the given user when a userId is passed, and those of every user when
\* none is; a second call on the same day with the same userId changes no
\* task and returns 0.
C30_RolloverChangesExactlyTheOverdueTasksOfItsUser ==
  [][ RolloverCalled =>
        /\ ChangesExactly({ id \in DOMAIN taskDocs :
                              /\ Overdue(taskDocs[id])
                              /\ rollover'.userId # Undef
                                   => taskDocs[id].userId = rollover'.userId })
        /\ rollover'.repeated => rollover'.modifiedCount = 0 /\ taskDocs' = taskDocs ]_vars

\* a second call on the same day has returned 0 after the first call rolled
\* an overdue task over, next to a task that is done, archived or planned
\* for a later day
C30_Witness ==
  /\ rollover # << >>
  /\ rollover.calls = 2 /\ rollover.repeated /\ rollover.modifiedCount = 0
  /\ \E id \in DOMAIN taskDocs :
       /\ taskDocs[id].rolloverCount = 1
       /\ taskDocs[id].planDate = toISODate(DateOf(calendarDay))
  /\ \E id \in DOMAIN taskDocs :
       /\ taskDocs[id].rolloverCount = 0
       /\ \/ taskDocs[id].status = "done"
          \/ taskDocs[id].archived
          \/ taskDocs[id].planDate = tomorrowISO(DateOf(calendarDay))
====
